---- MODULE Spec2Model ----
(***************************************************************************)
(* PUMP.GUARD risk engine: the category-capped aggregator, the signal      *)
(* merger, the TTL caches, the resumable holder-count job, the score       *)
(* handler (fast detectors) and the deep handler (liquidity detector).     *)
(*                                                                         *)
(* Each subsystem has its own specification over its own variables; the    *)
(* variables of the other subsystems keep their initial values.            *)
(***************************************************************************)
EXTENDS Integers, Sequences, FiniteSets, TLC

VARIABLES
    \* ---- aggregator (computeScoreWithCaps applied to an input list)
    aggSignals,     \* the Signal[] passed to computeScoreWithCaps
    aggPc,          \* "input" | "done"
    aggCapped,      \* per category: clamp(totals[cat], 0, CATEGORY_MAX[cat])
    aggScore,       \* the returned score
    \* ---- merger (mergeSignals applied to a base and a deep list)
    mBase, mDeep, mPc, mOut, mOut2,
    \* ---- TTL caches
    now,            \* Date.now()
    pgCache,        \* __PG_CACHE: key -> {ts, value} | NoEntry
    dexCache,       \* lib/dexscreener cache: key -> {exp, val} | NoEntry
    cacheOp,        \* the last cache operation and what it returned
    \* ---- holder-count job (pages/api/holders.ts)
    upstream,       \* the mint's token-account pages as the upstream serves them
    heap,           \* HoldersState objects, by reference
    jobRef,         \* __PG_CACHE["holders_job:<mint>"]: a reference | NoRef
    finalCache,     \* __PG_CACHE["holders_final:<mint>"]: holders | NoFinal
    req,            \* per request slot: position, local `state` reference, response
    log,            \* responses in the order they were sent
    \* ---- score handler (pages/api/score.ts)
    scoreResp,      \* the last response (with the upstream outcomes it was built from)
    scoreCache,     \* __PG_CACHE["score:<url>"]
    \* ---- deep handler (pages/api/score_deep.ts)
    deepResp,       \* the last response (with the upstream outcomes it was built from)
    deepCache,      \* __PG_CACHE["deep:sol:<input>"]
    deepDex,        \* lib/dexscreener cache as the deep handler uses it
    \* ---- page (pages/index.tsx, Home)
    pageData,       \* useState `data`: the score response | NoResp
    pageDeepSignals,\* useState `deepSignals`
    pageDeepLoading,\* useState `deepLoading`
    pageDeepReqs,   \* per run() so far: its input and where its deep request is
    \* ---- one evaluation request followed call by call
    evalOp,         \* "none" | "score" | "deep": the handler that runs
    evalPc,         \* "idle", the upstream call the handler awaits, or "answered"
    evalHang,       \* the upstream call that never responds, or "none"
    evalAbsent,     \* the calls whose outcome was taken as absent data
    \* ---- holder-count job called many times, one call after the other
    longJob,        \* __PG_CACHE["holders_job:<mint>"]: the state | NoJob
    longCalls,      \* the number of start and step calls served so far
    longLast,       \* the last call: its action, its status, the pages it fetched
    \* ---- a pure function applied to one argument
    fnArgs,         \* the argument (the upstream facts, the transactions, the ids)
    fnPc,           \* "input" | "done"
    fnResult        \* what the function returned

aggVars     == <<aggSignals, aggPc, aggCapped, aggScore>>
mergeVars   == <<mBase, mDeep, mPc, mOut, mOut2>>
cacheVars   == <<pgCache, dexCache, cacheOp>>
holdersVars == <<upstream, heap, jobRef, finalCache, req, log>>
scoreVars   == <<scoreResp, scoreCache>>
deepVars    == <<deepResp, deepCache, deepDex>>
pageVars    == <<pageData, pageDeepSignals, pageDeepLoading, pageDeepReqs>>
evalVars    == <<evalOp, evalPc, evalHang, evalAbsent>>
longVars    == <<longJob, longCalls, longLast>>
fnVars      == <<fnArgs, fnPc, fnResult>>
vars == <<aggVars, mergeVars, now, cacheVars, holdersVars, scoreVars, deepVars, pageVars,
          evalVars, longVars, fnVars>>

\* what an action of one subsystem leaves alone
outsideAgg     == <<mergeVars, now, cacheVars, holdersVars, scoreVars, deepVars, pageVars,
                    evalVars, longVars, fnVars>>
outsideMerge   == <<aggVars, now, cacheVars, holdersVars, scoreVars, deepVars, pageVars,
                    evalVars, longVars, fnVars>>
outsideCache   == <<aggVars, mergeVars, holdersVars, scoreVars, deepVars, pageVars,
                    evalVars, longVars, fnVars>>
outsideHolders == <<aggVars, mergeVars, cacheVars, scoreVars, deepVars, pageVars,
                    evalVars, longVars, fnVars>>
outsideScore   == <<aggVars, mergeVars, cacheVars, holdersVars, deepVars, pageVars,
                    evalVars, longVars, fnVars>>
outsideDeep    == <<aggVars, mergeVars, cacheVars, holdersVars, scoreVars, pageVars,
                    evalVars, longVars, fnVars>>
outsidePage    == <<aggVars, mergeVars, cacheVars, holdersVars, scoreVars, deepVars,
                    evalVars, longVars, fnVars>>
outsideEval    == <<aggVars, mergeVars, cacheVars, holdersVars, scoreVars, deepVars,
                    pageVars, longVars, fnVars>>
outsideLong    == <<aggVars, mergeVars, cacheVars, holdersVars, scoreVars, deepVars,
                    pageVars, evalVars, fnVars>>
outsideFn      == <<aggVars, mergeVars, cacheVars, holdersVars, scoreVars, deepVars,
                    pageVars, evalVars, longVars>>

(***************************************************************************)
(* Generic helpers                                                         *)
(***************************************************************************)
Min(a, b) == IF a <= b THEN a ELSE b
Max(a, b) == IF a >= b THEN a ELSE b

\* String.prototype.startsWith
StartsWith(s, p) == Len(s) >= Len(p) /\ SubSeq(s, 1, Len(p)) = p

RECURSIVE SumSeq(_)
SumSeq(s) == IF s = <<>> THEN 0 ELSE Head(s) + SumSeq(Tail(s))

Range(s) == {s[i] : i \in 1..Len(s)}

\* Sequences over S of length at most n
SeqsUpTo(S, n) == UNION {[1..k -> S] : k \in 0..n}

(***************************************************************************)
(* Signals.  A weight is what the `weight` field holds: a finite number,   *)
(* or something Number() turns into NaN (undefined, a non-numeric string). *)
(***************************************************************************)
Num(n) == [t |-> "num", n |-> n]
Malformed == [t |-> "nan", n |-> 0]

Sig(id, w) == [id |-> id, weight |-> w]

\* Number(x) || 0
NumberOr0(w) == IF w.t = "num" THEN w.n ELSE 0

(***************************************************************************)
(* Category-cap aggregator (pages/api/score.ts)                            *)
(***************************************************************************)
clamp(n, lo, hi) == Max(lo, Min(hi, n))

levelFromScore(score) ==
    IF score >= 70 THEN "HIGH"
    ELSE IF score >= 35 THEN "MEDIUM"
    ELSE "LOW"

RiskCategory ==
    {"PERMISSIONS", "DISTRIBUTION", "LIQUIDITY", "DEV_CONTRACT", "TX_PATTERNS", "CONTEXT"}

\* a ceiling above the real one: CONTEXT is allowed to count
CATEGORY_MAX_ContextCounts(cat) ==
    CASE cat = "PERMISSIONS"  -> 10
      [] cat = "DISTRIBUTION" -> 30
      [] cat = "LIQUIDITY"    -> 10
      [] cat = "DEV_CONTRACT" -> 30
      [] cat = "TX_PATTERNS"  -> 20
      [] cat = "CONTEXT"      -> 10

CATEGORY_MAX(cat) ==
    CASE cat = "PERMISSIONS"  -> 10
      [] cat = "DISTRIBUTION" -> 30
      [] cat = "LIQUIDITY"    -> 10
      [] cat = "DEV_CONTRACT" -> 30
      [] cat = "TX_PATTERNS"  -> 20
      [] cat = "CONTEXT"      -> 0

categorizeSignalId(id) ==
    IF id = "MINT_AUTHORITY_PRESENT" \/ id = "FREEZE_AUTHORITY_PRESENT"
    THEN "PERMISSIONS"
    ELSE IF StartsWith(id, "TOP10_") \/ StartsWith(id, "DEV_HOLDS_")
    THEN "DISTRIBUTION"
    ELSE IF StartsWith(id, "LP_")
    THEN "LIQUIDITY"
    ELSE IF \/ StartsWith(id, "BLACKLIST_")
            \/ StartsWith(id, "TAX_")
            \/ StartsWith(id, "TRANSFER_")
            \/ StartsWith(id, "HOOKS_")
            \/ StartsWith(id, "NONSTANDARD_")
    THEN "DEV_CONTRACT"
    ELSE IF \/ StartsWith(id, "DEV_DUMP_")
            \/ StartsWith(id, "BUNDLED_")
            \/ StartsWith(id, "MEV_")
            \/ StartsWith(id, "CLUSTER_")
    THEN "TX_PATTERNS"
    ELSE IF \/ StartsWith(id, "TOKEN_AGE_")
            \/ StartsWith(id, "DEV_")
            \/ StartsWith(id, "CONTEXT_")
    THEN "CONTEXT"
    ELSE "CONTEXT"

\* the loop `for (const s of signals) totals[cat] += w`
RECURSIVE totalsOf(_, _)
totalsOf(signals, cat) ==
    IF signals = <<>> THEN 0
    ELSE (IF categorizeSignalId(Head(signals).id) = cat
          THEN NumberOr0(Head(signals).weight) ELSE 0)
         + totalsOf(Tail(signals), cat)

\* the cap is not applied: the raw total is the contribution
cappedOf_NoCap(signals, cat) == totalsOf(signals, cat)

\* `const capped = clamp(totals[cat], 0, CATEGORY_MAX[cat])`
cappedOf(signals, cat) == clamp(totalsOf(signals, cat), 0, CATEGORY_MAX(cat))

CatOrder ==
    <<"PERMISSIONS", "DISTRIBUTION", "LIQUIDITY", "DEV_CONTRACT", "TX_PATTERNS", "CONTEXT">>

computeScoreWithCaps(signals) ==
    clamp(SumSeq([i \in 1..Len(CatOrder) |-> cappedOf(signals, CatOrder[i])]), 0, 100)

(***************************************************************************)
(* Signal merger (pages/index.tsx).  A JavaScript Map keeps its keys in    *)
(* insertion order; set() on a key that is present replaces the value in   *)
(* place.  The map is the sequence of its values, each carrying its key.   *)
(***************************************************************************)
HasId(m, id) == \E i \in 1..Len(m) : m[i].id = id

\* Map.prototype.set(s.id, s)
MapSet(m, s) ==
    IF HasId(m, s.id)
    THEN [i \in 1..Len(m) |-> IF m[i].id = s.id THEN s ELSE m[i]]
    ELSE Append(m, s)

\* a set() that keeps the entry already stored under the key
MapSetIfAbsent(m, s) == IF HasId(m, s.id) THEN m ELSE Append(m, s)

\* list.forEach((s) => map.set(s.id, s))
RECURSIVE SetAll(_, _)
SetAll(m, list) ==
    IF list = <<>> THEN m ELSE SetAll(MapSet(m, Head(list)), Tail(list))

RECURSIVE SetAllIfAbsent(_, _)
SetAllIfAbsent(m, list) ==
    IF list = <<>> THEN m
    ELSE SetAllIfAbsent(MapSetIfAbsent(m, Head(list)), Tail(list))

\* the deep list does not overwrite: the base entry wins
mergeSignals_BaseWins(base, deep) == SetAllIfAbsent(SetAll(<<>>, base), deep)

mergeSignals(base, deep) == SetAll(SetAll(<<>>, base), deep)

(***************************************************************************)
(* Initial values of each subsystem                                        *)
(***************************************************************************)
NoEntry == [present |-> FALSE]
NoRef   == "null"
NoFinal == [present |-> FALSE]
NoResp  == [status |-> "none"]

IdleAgg ==
    /\ aggSignals = <<>>
    /\ aggPc = "input"
    /\ aggCapped = [cat \in RiskCategory |-> 0]
    /\ aggScore = 0

IdleMerge ==
    /\ mBase = <<>>
    /\ mDeep = <<>>
    /\ mPc = "input"
    /\ mOut = <<>>
    /\ mOut2 = <<>>

(***************************************************************************)
(* Specification of the aggregator: the input list is any list of at most  *)
(* MaxSignals signals over AggIds x AggWeights; Compute applies            *)
(* computeScoreWithCaps to it.                                             *)
(***************************************************************************)
MaxSignals == 3

AggIds ==
    { "MINT_AUTHORITY_PRESENT",   \* exact match, PERMISSIONS
      "TOP10_GT_80",              \* TOP10_ prefix, DISTRIBUTION
      "LP_NOT_BURNED",            \* LP_ prefix, LIQUIDITY
      "NONSTANDARD_TRANSFER",     \* NONSTANDARD_ prefix, DEV_CONTRACT
      "DEV_DUMP_EARLY",           \* DEV_DUMP_ prefix, TX_PATTERNS
      "DEV_CANDIDATE",            \* DEV_ prefix, CONTEXT
      "DEMO_MODE" }               \* no rule matches

AggWeights == {Num(0 - 5), Num(15), Malformed}

AggSignalSet == {Sig(id, w) : id \in AggIds, w \in AggWeights}

Compute ==
    /\ aggPc = "input"
    /\ aggPc' = "done"
    /\ aggCapped' = [cat \in RiskCategory |-> cappedOf(aggSignals, cat)]
    /\ aggScore' = computeScoreWithCaps(aggSignals)
    /\ UNCHANGED <<aggSignals, outsideAgg>>

(***************************************************************************)
(* Specification of the merger                                             *)
(***************************************************************************)
MaxMergeLen == 2

MergeIds == {"LP_STATUS_UNKNOWN", "LP_NOT_BURNED", "DEV_CANDIDATE"}

MergeSignalSet == {Sig(id, Num(w)) : id \in MergeIds, w \in {0, 10}}

Merge ==
    /\ mPc = "input"
    /\ mPc' = "merged"
    /\ mOut' = mergeSignals(mBase, mDeep)
    /\ UNCHANGED <<mBase, mDeep, mOut2, outsideMerge>>

\* mergeSignals(mergeSignals(a, b), b)
MergeAgain ==
    /\ mPc = "merged"
    /\ mPc' = "again"
    /\ mOut2' = mergeSignals(mOut, mDeep)
    /\ UNCHANGED <<mBase, mDeep, mOut, outsideMerge>>

(***************************************************************************)
(* TTL caches.                                                             *)
(*   __PG_CACHE (score.ts, score_deep.ts): the entry keeps the time of the *)
(*   set; the caller of cacheGet passes the ttl.                           *)
(*   lib/dexscreener.ts: the entry keeps its expiry time.                  *)
(***************************************************************************)
ScoreTtlMs == 120000
DexTtlMs == 7 * 60 * 1000

\* the entry is dropped as soon as the ttl is reached
pgExpired_AtTtl(e, ttlMs, t) == t - e.ts >= ttlMs

\* `Date.now() - e.ts > ttlMs`
pgExpired(e, ttlMs, t) == t - e.ts > ttlMs

\* cacheGet: the value returned
cacheGetRet(cache, key, ttlMs, t) ==
    IF ~cache[key].present THEN "null"
    ELSE IF pgExpired(cache[key], ttlMs, t) THEN "null"
    ELSE cache[key].value

\* cacheGet: the store it leaves
cacheGetStore(cache, key, ttlMs, t) ==
    IF cache[key].present /\ pgExpired(cache[key], ttlMs, t)
    THEN [cache EXCEPT ![key] = NoEntry]
    ELSE cache

\* cacheSet
cacheSetStore(cache, key, value, t) ==
    [cache EXCEPT ![key] = [present |-> TRUE, ts |-> t, value |-> value]]

\* `e.exp <= nowMs()`
dexExpired(e, t) == e.exp <= t

\* getCached: the value returned
getCachedRet(cache, key, t) ==
    IF ~cache[key].present THEN "undefined"
    ELSE IF dexExpired(cache[key], t) THEN "undefined"
    ELSE cache[key].val

\* getCached: the store it leaves
getCachedStore(cache, key, t) ==
    IF cache[key].present /\ dexExpired(cache[key], t)
    THEN [cache EXCEPT ![key] = NoEntry]
    ELSE cache

\* setCached; `at` and `ttl` are not fields of the entry: they record the
\* time of the set and its ttl for the properties below
setCachedStore(cache, key, val, ttlMs, t) ==
    [cache EXCEPT ![key] =
        [present |-> TRUE, exp |-> t + ttlMs, val |-> val, at |-> t, ttl |-> ttlMs]]

PgKeys == {"score:/api/score?input=m1", "deep:sol:m1"}
PgValues == {"v1", "v2"}
DexKeys == {"dexscreener:m1"}
DexValues == {"pair", "null"}

\* the clock advances in steps of half the result ttl
TickMs == ScoreTtlMs \div 2
DexTtls == {2 * TickMs, DexTtlMs}
MaxCacheTicks == 8

NoOp == [op |-> "none"]

IdleCache ==
    /\ pgCache = [k \in PgKeys |-> NoEntry]
    /\ dexCache = [k \in DexKeys |-> NoEntry]
    /\ cacheOp = NoOp

CacheTick ==
    /\ now + TickMs <= MaxCacheTicks * TickMs
    /\ now' = now + TickMs
    /\ UNCHANGED <<cacheVars, outsideCache>>

DoCacheSet ==
    \E k \in PgKeys, v \in PgValues :
        /\ pgCache' = cacheSetStore(pgCache, k, v, now)
        /\ cacheOp' = [op |-> "cacheSet", key |-> k, at |-> now]
        /\ UNCHANGED <<now, dexCache, outsideCache>>

DoCacheGet ==
    \E k \in PgKeys :
        /\ pgCache' = cacheGetStore(pgCache, k, ScoreTtlMs, now)
        /\ cacheOp' = [op |-> "cacheGet", key |-> k, at |-> now, ttl |-> ScoreTtlMs,
                       before |-> pgCache[k],
                       ret |-> cacheGetRet(pgCache, k, ScoreTtlMs, now)]
        /\ UNCHANGED <<now, dexCache, outsideCache>>

DoSetCached ==
    \E k \in DexKeys, v \in DexValues, ttlMs \in DexTtls :
        /\ dexCache' = setCachedStore(dexCache, k, v, ttlMs, now)
        /\ cacheOp' = [op |-> "setCached", key |-> k, at |-> now]
        /\ UNCHANGED <<now, pgCache, outsideCache>>

DoGetCached ==
    \E k \in DexKeys :
        /\ dexCache' = getCachedStore(dexCache, k, now)
        /\ cacheOp' = [op |-> "getCached", key |-> k, at |-> now,
                       before |-> dexCache[k],
                       ret |-> getCachedRet(dexCache, k, now)]
        /\ UNCHANGED <<now, pgCache, outsideCache>>

(***************************************************************************)
(* Resumable holder-count job (pages/api/holders.ts).                      *)
(*                                                                         *)
(* The job state is a JavaScript object: the cache and the handler's local *)
(* `state` hold references to it, so it lives in `heap`.  A request is     *)
(* suspended once, at `await heliusRpc(...)`: HBegin is the code before    *)
(* the await, HFetchOk / HFetchFail the code after it.                     *)
(***************************************************************************)
JOB_TTL_MS == 10 * 60000

Owners == {"o1", "o2"}
NoOwner == ""
NoAmount == [t |-> "undefined", n |-> 0]

\* `ta.amount ?? 0`
NullishOr0(a) == IF a.t = "num" THEN a.n ELSE 0

Acct(owner, amount) == [owner |-> owner, amount |-> amount]

\* the token_accounts arrays an upstream page may hold
EmptyPage == <<>>
NonEmptyPages ==
    { <<Acct("o1", Num(5)), Acct("o2", Num(0)), Acct("o1", NoAmount)>>,
      <<Acct("o2", Num(3)), Acct(NoOwner, Num(4))>> }

Page(arr, hasCursor) == [accounts |-> arr, hasCursor |-> hasCursor]

\* the last page of a mint: no continuation cursor, or nothing on it
LastPages ==
    {Page(arr, FALSE) : arr \in NonEmptyPages \cup {EmptyPage}} \cup {Page(EmptyPage, TRUE)}

\* a mint spread over p pages: every page but the last holds accounts and a cursor
UpstreamsOf(p) ==
    {u \in [1..p -> {Page(arr, TRUE) : arr \in NonEmptyPages} \cup LastPages] :
        /\ \A i \in 1..(p - 1) : u[i].hasCursor /\ u[i].accounts # EmptyPage
        /\ u[p] \in LastPages}

MaxPages == 2
MaxCalls == 2
MaxHolderTicks == 2

Req == {"r1", "r2"}
ObjIds == {"s1", "s2", "s3"}
Free == [live |-> FALSE]
IdleReq == [pc |-> "idle", act |-> "", st |-> NoRef, cursor |-> 0, conc |-> FALSE]

\* the state object `{ owners: new Set(), cursor: undefined, pages: 0, ... }`;
\* cursor 0 is `undefined`, cursor i the cursor page i returned
NewState(t) ==
    [live |-> TRUE, owners |-> {}, cursor |-> 0, pages |-> 0,
     startedAt |-> t, updatedAt |-> t]

\* objects nothing refers to any more are dropped
Refs(jr, rq) ==
    (IF jr = NoRef THEN {} ELSE {jr}) \cup {rq[r].st : r \in {q \in Req : rq[q].pc = "fetching"}}
Collect(h, jr, rq) == [o \in ObjIds |-> IF o \in Refs(jr, rq) THEN h[o] ELSE Free]

\* the balance is not looked at
positiveOwners_AnyBalance(arr) ==
    {arr[i].owner : i \in {j \in 1..Len(arr) : arr[j].owner # NoOwner}}

\* `if (ta?.owner && (ta.amount ?? 0) > 0) state.owners.add(ta.owner)`
positiveOwners(arr) ==
    {arr[i].owner : i \in {j \in 1..Len(arr) :
        arr[j].owner # NoOwner /\ NullishOr0(arr[j].amount) > 0}}

\* the owner set is replaced by the owners of the page
addOwners_PageOnly(owners, arr) == positiveOwners(arr)

\* `for (const ta of arr) { if (...) state.owners.add(ta.owner) }`
addOwners(owners, arr) == owners \cup positiveOwners(arr)

\* staleness measured from the last update
isStale_SinceUpdate(state, t) == t - state.updatedAt > JOB_TTL_MS

\* `Date.now() - state.startedAt > JOB_TTL_MS`
isStale(state, t) == t - state.startedAt > JOB_TTL_MS

Fetching(rq) == {r \in Req : rq[r].pc = "fetching"}
Begun == Len(log) + Cardinality(Fetching(req))

\* every request in flight has now overlapped with another request
MarkConc(rq) == [q \in Req |-> IF rq[q].pc = "fetching" THEN [rq[q] EXCEPT !.conc = TRUE] ELSE rq[q]]

Resp(act, status, holders, pages, conc) ==
    [act |-> act, status |-> status, holders |-> holders, pages |-> pages, conc |-> conc]

IdleHolders ==
    /\ upstream = <<Page(EmptyPage, FALSE)>>
    /\ heap = [o \in ObjIds |-> Free]
    /\ jobRef = NoRef
    /\ finalCache = NoFinal
    /\ req = [r \in Req |-> IdleReq]
    /\ log = <<>>

\* a reset that answers without deleting the job state
HReset_KeepsJob ==
    /\ Begun < MaxCalls
    /\ jobRef' = jobRef
    /\ req' = MarkConc(req)
    /\ log' = Append(log, Resp("reset", "reset", 0, 0, Fetching(req) # {}))
    /\ heap' = Collect(heap, jobRef', req')
    /\ UNCHANGED <<upstream, finalCache, now, outsideHolders>>

\* action=reset: `cacheDel(key); return res.status(200).json({ status: "reset" })`
HReset ==
    /\ Begun < MaxCalls
    /\ jobRef' = NoRef
    /\ req' = MarkConc(req)
    /\ log' = Append(log, Resp("reset", "reset", 0, 0, Fetching(req) # {}))
    /\ heap' = Collect(heap, jobRef', req')
    /\ UNCHANGED <<upstream, finalCache, now, outsideHolders>>

\* a stored state is reused by a start request as well
needsInit_OnlyIfMissing(jr, action) == jr = NoRef

\* `if (!state || action === "start")`
needsInit(jr, action) == jr = NoRef \/ action = "start"

\* action=start or action=step, up to the page fetch
HBegin(r, action) ==
    LET fresh == needsInit(jobRef, action)
        o     == IF fresh THEN CHOOSE x \in ObjIds : ~heap[x].live ELSE jobRef
        h1    == IF fresh THEN [heap EXCEPT ![o] = NewState(now)] ELSE heap
        busy  == Fetching(req) # {}
    IN  /\ req[r].pc = "idle"
        /\ Begun < MaxCalls
        /\ IF isStale(h1[o], now)
           THEN /\ jobRef' = NoRef
                /\ req' = MarkConc(req)
                /\ log' = Append(log, Resp(action, "expired", 0, 0, busy))
           ELSE /\ jobRef' = o
                /\ req' = [MarkConc(req) EXCEPT ![r] =
                              [pc |-> "fetching", act |-> action, st |-> o,
                               cursor |-> h1[o].cursor, conc |-> busy]]
                /\ log' = log
        /\ heap' = Collect(h1, jobRef', req')
        /\ UNCHANGED <<upstream, finalCache, now, outsideHolders>>

\* the finished job's state stays stored
jobAfterDone_Kept(st) == st

\* `cacheDel(key)` in the done branch
jobAfterDone(st) == NoRef

\* the page arrives: accumulate, then done or running
HFetchOk(r) ==
    /\ req[r].pc = "fetching"
    /\ LET st     == req[r].st
           page   == upstream[req[r].cursor + 1]
           arr    == page.accounts
           owners == addOwners(heap[st].owners, arr)
           pages  == heap[st].pages + 1
           done   == ~page.hasCursor \/ Len(arr) = 0
           s1     == [heap[st] EXCEPT !.owners = owners, !.pages = pages, !.updatedAt = now]
           s2     == IF done THEN s1 ELSE [s1 EXCEPT !.cursor = req[r].cursor + 1]
       IN  /\ req' = [req EXCEPT ![r] = IdleReq]
           /\ IF done
              THEN /\ finalCache' = [present |-> TRUE, holders |-> Cardinality(owners), ts |-> now]
                   /\ jobRef' = jobAfterDone(st)
                   /\ log' = Append(log, Resp(req[r].act, "done", Cardinality(owners), pages, req[r].conc))
              ELSE /\ finalCache' = finalCache
                   /\ jobRef' = st
                   /\ log' = Append(log, Resp(req[r].act, "running", Cardinality(owners), pages, req[r].conc))
           /\ heap' = Collect([heap EXCEPT ![st] = s2], jobRef', req')
    /\ UNCHANGED <<upstream, now, outsideHolders>>

\* the failed fetch is counted as a page before the error is answered
HFetchFail_CountsPage(r) ==
    /\ req[r].pc = "fetching"
    /\ req' = [req EXCEPT ![r] = IdleReq]
    /\ log' = Append(log, Resp(req[r].act, "error", 0, 0, req[r].conc))
    /\ heap' = Collect([heap EXCEPT ![req[r].st].pages = @ + 1], jobRef, req')
    /\ UNCHANGED <<upstream, jobRef, finalCache, now, outsideHolders>>

\* heliusRpc throws: the catch block answers status error
HFetchFail(r) ==
    /\ req[r].pc = "fetching"
    /\ req' = [req EXCEPT ![r] = IdleReq]
    /\ log' = Append(log, Resp(req[r].act, "error", 0, 0, req[r].conc))
    /\ heap' = Collect(heap, jobRef, req')
    /\ UNCHANGED <<upstream, jobRef, finalCache, now, outsideHolders>>

HTick ==
    /\ now + JOB_TTL_MS <= MaxHolderTicks * JOB_TTL_MS
    /\ now' = now + JOB_TTL_MS
    /\ UNCHANGED <<holdersVars, outsideHolders>>

(***************************************************************************)
(* Score handler and the fast detectors (pages/api/score.ts).              *)
(*                                                                         *)
(* One evaluation sees one outcome per upstream call: the call throws      *)
(* (ok = FALSE) or delivers its facts.  A percentage is kept as the        *)
(* fraction topSum / supplyUi; `pct > n` is topSum * 100 > n * supplyUi.   *)
(***************************************************************************)
Null == [t |-> "null", n |-> 0]
NoAddr == ""

\* `supplyUi && supplyUi > 0 ? (topSum / supplyUi) * 100 : undefined`
top10PercentOf(supplyUi, topSum) ==
    IF supplyUi.t = "num" /\ supplyUi.n # 0 /\ supplyUi.n > 0
    THEN [known |-> TRUE, num |-> topSum, den |-> supplyUi.n]
    ELSE [known |-> FALSE, num |-> 0, den |-> 1]

PctGT(pct, n) == pct.num * 100 > n * pct.den

\* the three tests are not chained by `else`
top10Signals_AllBands(pct) ==
    IF ~pct.known THEN <<>>
    ELSE (IF PctGT(pct, 80) THEN <<Sig("TOP10_GT_80", Num(15))>> ELSE <<>>)
         \o (IF PctGT(pct, 60) THEN <<Sig("TOP10_GT_60", Num(10))>> ELSE <<>>)
         \o (IF PctGT(pct, 40) THEN <<Sig("TOP10_GT_40", Num(5))>> ELSE <<>>)

\* `if (typeof top10Percent === "number") { if (> 80) .. else if (> 60) .. else if (> 40) .. }`
top10Signals(pct) ==
    IF ~pct.known THEN <<>>
    ELSE IF PctGT(pct, 80) THEN <<Sig("TOP10_GT_80", Num(15))>>
    ELSE IF PctGT(pct, 60) THEN <<Sig("TOP10_GT_60", Num(10))>>
    ELSE IF PctGT(pct, 40) THEN <<Sig("TOP10_GT_40", Num(5))>>
    ELSE <<>>

authoritySignals(mintAuth, freezeAuth) ==
    (IF mintAuth # NoAddr THEN <<Sig("MINT_AUTHORITY_PRESENT", Num(5))>> ELSE <<>>)
    \o (IF freezeAuth # NoAddr THEN <<Sig("FREEZE_AUTHORITY_PRESENT", Num(5))>> ELSE <<>>)

\* the age block: its RPC errors are swallowed
ageSecondsOf(age) == IF age.ok /\ age.known THEN Num(age.seconds) ELSE Null

ageSignals(ageSeconds) ==
    IF ageSeconds.t # "num" THEN <<>>
    ELSE IF ageSeconds.n < 3600 THEN <<Sig("TOKEN_AGE_LT_1H", Num(0))>>
    ELSE IF ageSeconds.n < 21600 THEN <<Sig("TOKEN_AGE_LT_6H", Num(0))>>
    ELSE IF ageSeconds.n < 86400 THEN <<Sig("TOKEN_AGE_LT_24H", Num(0))>>
    ELSE <<>>

bestDevCandidate(mintAuth, freezeAuth, signerDev) ==
    IF mintAuth # NoAddr THEN [dev |-> mintAuth, reason |-> "mintAuthority"]
    ELSE IF freezeAuth # NoAddr THEN [dev |-> freezeAuth, reason |-> "freezeAuthority"]
    ELSE IF signerDev # NoAddr THEN [dev |-> signerDev, reason |-> "earliestSigner"]
    ELSE [dev |-> NoAddr, reason |-> "unknown"]

devSignals(cand, signerDev) ==
    IF cand.dev # NoAddr
    THEN <<Sig("DEV_CANDIDATE", Num(0))>>
         \o (IF cand.reason = "earliestSigner" /\ signerDev # NoAddr
             THEN <<Sig("DEV_EARLY_SIGNER", Num(0))>> ELSE <<>>)
    ELSE <<Sig("DEV_UNKNOWN", Num(0))>>

\* solTokenSignals: `threw` when new PublicKey(mint) or one of the three
\* unguarded RPC calls throws; the signals pushed so far are then lost with
\* the function's local array
solTokenSignals(validKey, up) ==
    IF ~validKey \/ ~up.acct.ok \/ ~up.supply.ok \/ ~up.largest.ok
    THEN [threw |-> TRUE, signals |-> <<>>,
          meta |-> [age_seconds |-> Null, top10 |-> top10PercentOf(Null, 0), dev_candidate |-> NoAddr]]
    ELSE LET pct       == top10PercentOf(up.supply.ui, up.largest.topSum)
             ageSec    == ageSecondsOf(up.age)
             signerDev == IF up.signer.ok THEN up.signer.signer ELSE NoAddr
             cand      == bestDevCandidate(up.acct.mintAuth, up.acct.freezeAuth, signerDev)
         IN  [threw |-> FALSE,
              signals |-> authoritySignals(up.acct.mintAuth, up.acct.freezeAuth)
                          \o top10Signals(pct)
                          \o <<Sig("LP_STATUS_UNKNOWN", Num(0))>>
                          \o ageSignals(ageSec)
                          \o devSignals(cand, signerDev),
              meta |-> [age_seconds |-> ageSec, top10 |-> pct, dev_candidate |-> cand.dev]]

\* JavaScript truthiness of a number | undefined
TruthyNum(x) == x.t = "num" /\ x.n # 0

\* the handler after a cache miss: the live path, or the fallback
scoreEvaluate(url, up) ==
    LET r == IF url.chain = "sol" THEN solTokenSignals(url.validKey, up)
             ELSE [threw |-> FALSE, signals |-> <<>>, meta |-> <<>>]
    IN  IF url.chain = "sol" /\ ~r.threw
        THEN LET score == computeScoreWithCaps(r.signals)
             IN  [status |-> 200, score |-> score, level |-> levelFromScore(score),
                  confidence |-> IF /\ TruthyNum(r.meta.age_seconds)
                                    /\ r.meta.top10.known /\ r.meta.top10.num # 0
                                    /\ r.meta.dev_candidate # NoAddr
                                    /\ up.heliusKey
                                 THEN "HIGH" ELSE "MED",
                  mode |-> "LIVE", signals |-> r.signals, url |-> url, up |-> up]
        ELSE \* `mode` and `confidence` keep what the try block assigned before the throw
             [status |-> 200, score |-> clamp(0, 0, 100), level |-> levelFromScore(0),
              confidence |-> IF url.chain = "sol" THEN "MED" ELSE "LOW",
              mode |-> IF url.chain = "sol" THEN "LIVE" ELSE "DEMO",
              signals |-> (IF url.chain = "sol" THEN <<Sig("LIVE_ERROR", Num(0))>> ELSE <<>>)
                          \o <<Sig("DEMO_MODE", Num(0))>>,
              url |-> url, up |-> up]

\* whether cacheGet finds a live entry (`if (cached)`: a response is truthy)
cacheHit(cache, key, ttlMs, t) ==
    cache[key].present /\ ~pgExpired(cache[key], ttlMs, t)

\* the requests: GET with a non-empty input.  `validKey`: new PublicKey(input) succeeds
ScoreUrls ==
    { [key |-> "score:/api/score?input=mintA", chain |-> "sol", validKey |-> TRUE],
      [key |-> "score:/api/score?input=bad&chain=sol", chain |-> "sol", validKey |-> FALSE],
      [key |-> "score:/api/score?input=0xabc", chain |-> "eth", validKey |-> FALSE] }

ScoreKeys == {u.key : u \in ScoreUrls}

AcctOutcomes ==
    {[ok |-> FALSE, mintAuth |-> NoAddr, freezeAuth |-> NoAddr]}
    \cup {[ok |-> TRUE, mintAuth |-> m, freezeAuth |-> f] :
            m \in {NoAddr, "authM"}, f \in {NoAddr, "authF"}}
SupplyOutcomes ==
    {[ok |-> FALSE, ui |-> Null]} \cup {[ok |-> TRUE, ui |-> x] : x \in {Null, Num(0), Num(20)}}
\* with a supply of 20: 0%, 40%, 45%, 60%, 65%, 80%, 85%, 100%
TopSums == {0, 8, 9, 12, 13, 16, 17, 20}
LargestOutcomes ==
    {[ok |-> FALSE, topSum |-> 0]} \cup {[ok |-> TRUE, topSum |-> x] : x \in TopSums}
AgeOutcomes ==
    {[ok |-> FALSE, known |-> FALSE, seconds |-> 0], [ok |-> TRUE, known |-> FALSE, seconds |-> 0]}
    \cup {[ok |-> TRUE, known |-> TRUE, seconds |-> x] : x \in {1800, 43200, 172800}}
SignerOutcomes ==
    {[ok |-> FALSE, signer |-> NoAddr]} \cup {[ok |-> TRUE, signer |-> x] : x \in {NoAddr, "signerS"}}

FailedCalls(up) ==
    {c \in {"acct", "supply", "largest", "age", "signer"} :
        \/ c = "acct" /\ ~up.acct.ok
        \/ c = "supply" /\ ~up.supply.ok
        \/ c = "largest" /\ ~up.largest.ok
        \/ c = "age" /\ ~up.age.ok
        \/ c = "signer" /\ ~up.signer.ok}

\* two reference tokens: a quiet one and one that trips every fast detector
PlainUp ==
    [acct |-> [ok |-> TRUE, mintAuth |-> NoAddr, freezeAuth |-> NoAddr],
     supply |-> [ok |-> TRUE, ui |-> Num(20)],
     largest |-> [ok |-> TRUE, topSum |-> 8],
     age |-> [ok |-> TRUE, known |-> TRUE, seconds |-> 172800],
     signer |-> [ok |-> TRUE, signer |-> NoAddr],
     heliusKey |-> FALSE]
RichUp ==
    [acct |-> [ok |-> TRUE, mintAuth |-> "authM", freezeAuth |-> "authF"],
     supply |-> [ok |-> TRUE, ui |-> Num(20)],
     largest |-> [ok |-> TRUE, topSum |-> 17],
     age |-> [ok |-> TRUE, known |-> TRUE, seconds |-> 1800],
     signer |-> [ok |-> TRUE, signer |-> "signerS"],
     heliusKey |-> TRUE]

\* the groups of facts in which up differs from base
UpGroups(up) == <<up.acct, <<up.supply, up.largest>>, up.age, up.signer, up.heliusKey>>
Deviating(up, base) == {i \in 1..5 : UpGroups(up)[i] # UpGroups(base)[i]}

\* the outcomes of one evaluation: a reference token with at most one group
\* of facts varied (a failing call included), or every call failing
ScoreUpstreams ==
    {up \in [acct : AcctOutcomes, supply : SupplyOutcomes, largest : LargestOutcomes,
             age : AgeOutcomes, signer : SignerOutcomes, heliusKey : BOOLEAN] :
        /\ (up.supply.ui # Num(20) => up.largest.topSum = 0)
        /\ \/ Cardinality(Deviating(up, PlainUp)) <= 1
           \/ Cardinality(Deviating(up, RichUp)) <= 1
           \/ Cardinality(FailedCalls(up)) = 5 /\ ~up.heliusKey}

\* a request that makes no upstream call
UpNone ==
    [acct |-> [ok |-> FALSE, mintAuth |-> NoAddr, freezeAuth |-> NoAddr],
     supply |-> [ok |-> FALSE, ui |-> Null],
     largest |-> [ok |-> FALSE, topSum |-> 0],
     age |-> [ok |-> FALSE, known |-> FALSE, seconds |-> 0],
     signer |-> [ok |-> FALSE, signer |-> NoAddr],
     heliusKey |-> FALSE]

\* the clock advances in steps of the result ttl: an entry is still served
\* one step after its set and is gone two steps after it
ScoreTickMs == ScoreTtlMs
MaxScoreTicks == 2

IdleScore ==
    /\ scoreResp = NoResp
    /\ scoreCache = [k \in ScoreKeys |-> NoEntry]

\* `if (cached) return res.status(200).json(cached)`
ScoreHit ==
    \E url \in ScoreUrls :
        /\ cacheHit(scoreCache, url.key, ScoreTtlMs, now)
        /\ scoreResp' = [status |-> "answered", hit |-> TRUE,
                         body |-> cacheGetRet(scoreCache, url.key, ScoreTtlMs, now)]
        /\ scoreCache' = cacheGetStore(scoreCache, url.key, ScoreTtlMs, now)
        /\ UNCHANGED <<now, outsideScore>>

\* cache miss: evaluate, store the response, answer it
ScoreMiss ==
    \E url \in ScoreUrls :
        \E up \in (IF url.chain = "sol" /\ url.validKey THEN ScoreUpstreams ELSE {UpNone}) :
            /\ ~cacheHit(scoreCache, url.key, ScoreTtlMs, now)
            /\ LET body == scoreEvaluate(url, up)
               IN  /\ scoreResp' = [status |-> "answered", hit |-> FALSE, body |-> body]
                   /\ scoreCache' =
                        cacheSetStore(cacheGetStore(scoreCache, url.key, ScoreTtlMs, now),
                                      url.key, body, now)
            /\ UNCHANGED <<now, outsideScore>>

ScoreTick ==
    /\ now + ScoreTickMs <= MaxScoreTicks * ScoreTickMs
    /\ now' = now + ScoreTickMs
    /\ UNCHANGED <<scoreVars, outsideScore>>

(***************************************************************************)
(* Deep handler (pages/api/score_deep.ts, second handler of the file).     *)
(*                                                                         *)
(* One analysis sees one outcome per upstream call.  The transactions are  *)
(* kept as the numbers the heuristics derive from them.                    *)
(***************************************************************************)
DeepTtlMs == 120000

\* the burned share of an LP supply of 100 raw units; 0.95 is 95 of 100
burnedBelow95(burnedRaw, supplyRaw) == burnedRaw * 100 < 95 * supplyRaw

\* the LP mint the analysis ends up with: the Raydium v3 answer for the
\* DexScreener pair, else the answer for the pool found by mint
lpMintOf(lp) ==
    IF lp.lp1 # "none" THEN lp.lp1
    ELSE IF lp.found THEN lp.lp2
    ELSE "none"

\* the LIQUIDITY block of deepAnalyzeSol: the signals it adds and whether it
\* leaves the function through the bare `return`
lpBlock(disc, lp) ==
    LET unknown == <<Sig("LP_STATUS_UNKNOWN", Num(0))>>
        lpMint  == lpMintOf(lp)
    IN  IF disc = "null" THEN [signals |-> unknown, returned |-> FALSE]
        ELSE IF disc = "pumpswap" THEN [signals |-> unknown, returned |-> FALSE]
        ELSE IF disc = "raydium" THEN
            IF lpMint = "none" THEN [signals |-> unknown, returned |-> FALSE]
            ELSE IF lpMint = "garbage" THEN [signals |-> unknown, returned |-> TRUE]
            ELSE IF lp.burned.kind = "throws" THEN [signals |-> unknown, returned |-> FALSE]
            ELSE IF lp.burned.kind = "null" THEN [signals |-> unknown, returned |-> FALSE]
            ELSE IF burnedBelow95(lp.burned.burnedRaw, lp.burned.supplyRaw)
                 THEN [signals |-> <<Sig("LP_NOT_BURNED", Num(10))>>, returned |-> FALSE]
                 ELSE [signals |-> <<Sig("LP_OK", Num(0))>>, returned |-> FALSE]
        ELSE [signals |-> unknown, returned |-> FALSE]

\* the buyers-burst, cluster-funding and dev-dump heuristics
txSignals(dev, tx) ==
    LET launch   == tx.ok /\ tx.launchKnown
        b60      == IF launch THEN tx.buyers60 ELSE 0
        b180     == IF launch THEN tx.buyers180 ELSE 0
        funded   == IF launch THEN tx.funded ELSE 0
        devOut   == IF launch THEN tx.devOut ELSE 0
        pctKnown == tx.supply.t = "num" /\ tx.supply.n # 0 /\ tx.supply.n > 0
        flag     == IF pctKnown THEN devOut * 100 >= 1 * tx.supply.n ELSE devOut >= 100000
    IN  (IF b60 >= 6 THEN <<Sig("BUNDLED_LAUNCH_OR_MEV", Num(5))>>
         ELSE IF b180 >= 12 THEN <<Sig("BUNDLED_LAUNCH_OR_MEV", Num(5))>>
         ELSE <<>>)
        \o (IF funded >= 5 THEN <<Sig("CLUSTER_FUNDING", Num(5))>> ELSE <<>>)
        \o (IF dev # NoAddr /\ launch /\ devOut > 0 /\ flag
            THEN <<Sig("DEV_DUMP_EARLY", Num(10))>> ELSE <<>>)

\* deepAnalyzeSol: it throws, returns nothing, or returns its signals
deepAnalyzeSol(disc, up) ==
    LET token2022 == IF up.owner.ok /\ StartsWith(up.owner.program, "TokenzQd")
                     THEN <<Sig("NONSTANDARD_TRANSFER", Num(5))>> ELSE <<>>
        lp        == lpBlock(disc, up.lp)
    IN  IF ~up.rpcUrlOk THEN [kind |-> "throws", signals |-> <<>>]
        ELSE IF lp.returned THEN [kind |-> "undefined", signals |-> token2022 \o lp.signals]
        ELSE [kind |-> "object",
              signals |-> token2022 \o lp.signals \o txSignals(up.dev, up.tx)]

\* the response of a request that reaches the analysis
deepEvaluate(url, disc, up) ==
    LET out == deepAnalyzeSol(disc, up)
    IN  IF out.kind = "throws"
        THEN [status |-> 500, signals |-> <<>>, url |-> url, disc |-> disc, up |-> up]
        ELSE [status |-> 200,
              signals |-> IF out.kind = "object" THEN out.signals ELSE <<>>,
              url |-> url, disc |-> disc, up |-> up]

DeepUrls ==
    { [input |-> "mintA", chain |-> "sol", validKey |-> TRUE],
      [input |-> "bad", chain |-> "sol", validKey |-> FALSE],
      [input |-> "mintA", chain |-> "eth", validKey |-> TRUE],
      [input |-> "", chain |-> "sol", validKey |-> FALSE] }

DeepKey == "deep:sol:mintA"
DeepDexKey == "dexscreener:mintA"

\* what DexScreener discovery yields: no pool, or the dex of the top pair
Discs == {"null", "pumpswap", "raydium", "orca"}

OwnerOutcomes ==
    { [ok |-> FALSE, program |-> ""],
      [ok |-> TRUE, program |-> "TokenkegQfeZ"],
      [ok |-> TRUE, program |-> "TokenzQdBNbL"] }

NoBurn == [kind |-> "null", burnedRaw |-> 0, supplyRaw |-> 0]
BurnOutcomes ==
    { [kind |-> "throws", burnedRaw |-> 0, supplyRaw |-> 0], NoBurn }
    \cup {[kind |-> "ratio", burnedRaw |-> b, supplyRaw |-> 100] : b \in {0, 94, 95, 100}}

\* outcomes of the Raydium calls; calls the analysis does not reach are
\* left at their defaults
LpOutcomes ==
    {lp \in [lp1 : {"none", "valid", "garbage"}, found : BOOLEAN,
             lp2 : {"none", "valid", "garbage"}, burned : BurnOutcomes] :
        /\ (lp.lp1 # "none" => ~lp.found)
        /\ (~lp.found => lp.lp2 = "none")
        /\ (lpMintOf(lp) # "valid" => lp.burned = NoBurn)}

NoLp == [lp1 |-> "none", found |-> FALSE, lp2 |-> "none", burned |-> NoBurn]

TxOutcomes ==
    { [ok |-> FALSE, launchKnown |-> FALSE, buyers60 |-> 0, buyers180 |-> 0,
       funded |-> 0, devOut |-> 0, supply |-> Null],
      [ok |-> TRUE, launchKnown |-> TRUE, buyers60 |-> 5, buyers180 |-> 11,
       funded |-> 4, devOut |-> 0, supply |-> Null],
      [ok |-> TRUE, launchKnown |-> TRUE, buyers60 |-> 6, buyers180 |-> 6,
       funded |-> 5, devOut |-> 1, supply |-> Num(100)],
      [ok |-> TRUE, launchKnown |-> TRUE, buyers60 |-> 5, buyers180 |-> 12,
       funded |-> 0, devOut |-> 100000, supply |-> Null] }

NoTx ==
    [ok |-> FALSE, launchKnown |-> FALSE, buyers60 |-> 0, buyers180 |-> 0,
     funded |-> 0, devOut |-> 0, supply |-> Null]

\* two reference tokens and the case of a malformed SOLANA_RPC_URL, in which
\* `new Connection(rpc)` throws before any call is made
PlainDeepUp ==
    [rpcUrlOk |-> TRUE, owner |-> [ok |-> TRUE, program |-> "TokenkegQfeZ"],
     lp |-> NoLp, dev |-> NoAddr, tx |-> NoTx]
RichDeepUp ==
    [rpcUrlOk |-> TRUE, owner |-> [ok |-> TRUE, program |-> "TokenzQdBNbL"],
     lp |-> [lp1 |-> "valid", found |-> FALSE, lp2 |-> "none",
             burned |-> [kind |-> "ratio", burnedRaw |-> 94, supplyRaw |-> 100]],
     dev |-> "authM",
     tx |-> [ok |-> TRUE, launchKnown |-> TRUE, buyers60 |-> 6, buyers180 |-> 6,
             funded |-> 5, devOut |-> 1, supply |-> Num(100)]]
BrokenDeepUp ==
    [rpcUrlOk |-> FALSE, owner |-> [ok |-> FALSE, program |-> ""],
     lp |-> NoLp, dev |-> NoAddr, tx |-> NoTx]

DeepGroups(up) == <<up.owner, up.lp, <<up.dev, up.tx>>>>
DeepDeviating(up, base) == {i \in 1..3 : DeepGroups(up)[i] # DeepGroups(base)[i]}

\* the outcomes of one analysis: a reference token with at most one group of
\* facts varied
DeepUpstreams ==
    {up \in [rpcUrlOk : {TRUE}, owner : OwnerOutcomes, lp : LpOutcomes,
             dev : {NoAddr, "authM"}, tx : TxOutcomes] :
        \/ Cardinality(DeepDeviating(up, PlainDeepUp)) <= 1
        \/ Cardinality(DeepDeviating(up, RichDeepUp)) <= 1}
    \cup {BrokenDeepUp}

\* the clock advances in steps of half the pool-discovery ttl
DeepTickMs == DexTtlMs \div 2
MaxDeepTicks == 2

IdleDeep ==
    /\ deepResp = NoResp
    /\ deepCache = [k \in {DeepKey} |-> NoEntry]
    /\ deepDex = [k \in {DeepDexKey} |-> NoEntry]

\* missing input, a chain other than sol, or an input that is no public key
DeepReject ==
    \E url \in DeepUrls :
        /\ url.input = "" \/ url.chain # "sol" \/ ~url.validKey
        /\ deepResp' = [status |-> "answered", hit |-> FALSE,
                        body |-> [status |-> 400, signals |-> <<>>, url |-> url]]
        /\ UNCHANGED <<deepCache, deepDex, now, outsideDeep>>

\* `if (cached) { ...HIT... return res.status(200).json(cached) }`
DeepHit ==
    \E url \in DeepUrls :
        /\ url.input # "" /\ url.chain = "sol" /\ url.validKey
        /\ cacheHit(deepCache, DeepKey, DeepTtlMs, now)
        /\ deepResp' = [status |-> "answered", hit |-> TRUE,
                        body |-> cacheGetRet(deepCache, DeepKey, DeepTtlMs, now)]
        /\ deepCache' = cacheGetStore(deepCache, DeepKey, DeepTtlMs, now)
        /\ UNCHANGED <<deepDex, now, outsideDeep>>

\* cache miss: analyse; a 200 response is stored, a 500 response is not.
\* discoverTopPairViaDexScreener answers from its own cache while it can.
DeepMiss ==
    \E url \in DeepUrls, fresh \in Discs, up \in DeepUpstreams :
        /\ url.input # "" /\ url.chain = "sol" /\ url.validKey
        /\ ~cacheHit(deepCache, DeepKey, DeepTtlMs, now)
        /\ LET known == up.rpcUrlOk /\ getCachedRet(deepDex, DeepDexKey, now) # "undefined"
               disc  == IF known THEN getCachedRet(deepDex, DeepDexKey, now) ELSE fresh
               body  == deepEvaluate(url, disc, up)
               c1    == cacheGetStore(deepCache, DeepKey, DeepTtlMs, now)
           IN  /\ known => fresh = "null"
               /\ (disc # "raydium" => up.lp = NoLp)
               /\ deepResp' = [status |-> "answered", hit |-> FALSE, body |-> body]
               /\ deepCache' = IF body.status = 200
                               THEN cacheSetStore(c1, DeepKey, body, now) ELSE c1
               /\ deepDex' = IF ~up.rpcUrlOk THEN deepDex
                             ELSE IF known THEN deepDex
                             ELSE setCachedStore(getCachedStore(deepDex, DeepDexKey, now),
                                                 DeepDexKey, fresh, DexTtlMs, now)
        /\ UNCHANGED <<now, outsideDeep>>

DeepTick ==
    /\ now + DeepTickMs <= MaxDeepTicks * DeepTickMs
    /\ now' = now + DeepTickMs
    /\ UNCHANGED <<deepVars, outsideDeep>>

(***************************************************************************)
(* Page (pages/index.tsx, Home): `run` asks /api/score, keeps the answer   *)
(* in `data`, and for a Solana token asks /api/score_deep in the           *)
(* background; the deep answer's signals are kept in `deepSignals`.        *)
(* A run is started here once the previous deep request has settled.       *)
(***************************************************************************)
IdlePage ==
    /\ pageData = NoResp
    /\ pageDeepSignals = <<>>
    /\ pageDeepLoading = FALSE
    /\ pageDeepReqs = <<>>

\* what /api/score_deep answers to the page's request for an input
DeepAnswers(url) ==
    IF ~url.validKey
    THEN {[status |-> 400, signals |-> <<>>]}
    ELSE {[status |-> b.status, signals |-> b.signals] :
            b \in UNION {{deepEvaluate(url, disc, up) :
                            up \in {u \in DeepUpstreams : disc # "raydium" => u.lp = NoLp}} :
                         disc \in Discs}}

\* `const mergedSignals = useMemo(() => mergeSignals(data.signals, deepSignals))`
mergedSignals ==
    IF pageData = NoResp THEN <<>> ELSE mergeSignals(pageData.signals, pageDeepSignals)

\* the number rendered as `${data.risk.score} / 100`
shownScore == IF pageData = NoResp THEN 0 ELSE pageData.score

MaxRuns == 2

\* run(): setData(null), setDeepSignals([]), then setData(j) and, for a
\* Solana token, the deep request is sent.  The button is disabled while
\* the score request is awaited (`loading`), not while a deep request is
\* in flight.
PageRun ==
    \E url \in ScoreUrls :
        \E up \in (IF url.chain = "sol" /\ url.validKey THEN ScoreUpstreams ELSE {UpNone}) :
            /\ Len(pageDeepReqs) < MaxRuns
            /\ pageData' = scoreEvaluate(url, up)
            /\ pageDeepSignals' = <<>>
            /\ pageDeepLoading' = (url.chain = "sol")
            /\ pageDeepReqs' = Append(pageDeepReqs,
                                      [url |-> url,
                                       pc |-> IF url.chain = "sol" THEN "pending" ELSE "none"])
            /\ UNCHANGED <<now, outsidePage>>

\* a deep request settles: `if (Array.isArray(j2?.signals)) setDeepSignals(...)`,
\* then `setDeepLoading(false)`; only a 200 answer carries a signal list
PageDeepSettles ==
    \E i \in 1..Len(pageDeepReqs) :
        /\ pageDeepReqs[i].pc = "pending"
        /\ \E j2 \in DeepAnswers(pageDeepReqs[i].url) :
              pageDeepSignals' = IF j2.status = 200 THEN j2.signals ELSE pageDeepSignals
        /\ pageDeepLoading' = FALSE
        /\ pageDeepReqs' = [pageDeepReqs EXCEPT ![i].pc = "settled"]
        /\ UNCHANGED <<pageData, now, outsidePage>>

(***************************************************************************)
(* One evaluation request followed from one awaited upstream call to the   *)
(* next: /api/score (solTokenSignals) or /api/score_deep (deepAnalyzeSol). *)
(* At most one upstream call of the request never responds.                *)
(***************************************************************************)
IdleEval ==
    /\ evalOp = "none"
    /\ evalPc = "idle"
    /\ evalHang = "none"
    /\ evalAbsent = {}

\* the awaited upstream calls of each handler
EvalOps == {"score", "deep"}
EvalCalls(op) ==
    IF op = "score"
    THEN {"acct", "supply", "largest", "age", "signer"}
    ELSE {"owner", "disc", "lp1", "poolByMint", "lp2", "burned", "dev", "tx", "devSupply"}

\* the first call a handler awaits
FirstCall(op) == IF op = "score" THEN "acct" ELSE "owner"

\* what the handler awaits next once call c has settled; the data decides
\* between the branches
NextCalls(op, c) ==
    IF op = "score" THEN
        CASE c = "acct"    -> {"supply"}
          [] c = "supply"  -> {"largest"}
          [] c = "largest" -> {"age"}
          [] c = "age"     -> {"signer"}
          [] OTHER         -> {"answered"}
    ELSE
        CASE c = "owner"      -> {"disc"}
          [] c = "disc"       -> {"lp1", "dev"}
          [] c = "lp1"        -> {"poolByMint", "burned", "answered", "dev"}
          [] c = "poolByMint" -> {"lp2", "dev"}
          [] c = "lp2"        -> {"burned", "answered", "dev"}
          [] c = "burned"     -> {"dev"}
          [] c = "dev"        -> {"tx"}
          [] c = "tx"         -> {"devSupply", "answered"}
          [] OTHER            -> {"answered"}

\* the calls that are raced against a timer: fetchJson aborts its fetch
\* after 7 s, the enhanced-transactions fetch is under withTimeout(18 s)
TimeBounded(op, c) == op = "deep" /\ c \in {"poolByMint", "tx"}

\* a request arrives and awaits its first call
EvalStart ==
    /\ evalPc \in {"idle", "answered"}
    /\ \E op \in EvalOps : \E h \in EvalCalls(op) \cup {"none"} :
          /\ evalOp' = op
          /\ evalPc' = FirstCall(op)
          /\ evalHang' = h
          /\ evalAbsent' = {}
    /\ UNCHANGED <<now, outsideEval>>

\* what the handler awaits next once call c has failed (it threw, or its
\* timer fired): the first three calls of solTokenSignals are unguarded and
\* end the live path, every other failure is caught and counts as no data
AfterFailure(op, c) ==
    IF op = "score" THEN
        CASE c = "age" -> {"signer"}
          [] OTHER     -> {"answered"}
    ELSE
        CASE c = "owner"      -> {"disc"}
          [] c = "lp1"        -> {"poolByMint"}
          [] c = "poolByMint" -> {"lp2", "dev"}
          [] c = "lp2"        -> {"dev"}
          [] c = "burned"     -> {"dev"}
          [] c = "dev"        -> {"tx"}
          [] OTHER            -> {"answered"}

\* the awaited call responds with a value
EvalCallReturns ==
    /\ evalPc \notin {"idle", "answered"}
    /\ evalPc # evalHang
    /\ \E n \in NextCalls(evalOp, evalPc) : evalPc' = n
    /\ UNCHANGED <<evalOp, evalHang, evalAbsent, now, outsideEval>>

\* the awaited call responds with an error (discoverTopPairViaDexScreener
\* catches its own and returns null, which is a value)
EvalCallThrows ==
    /\ evalPc \notin {"idle", "answered", "disc"}
    /\ evalPc # evalHang
    /\ \E n \in AfterFailure(evalOp, evalPc) : evalPc' = n
    /\ evalAbsent' = evalAbsent \cup {evalPc}
    /\ UNCHANGED <<evalOp, evalHang, now, outsideEval>>

\* the awaited call never responds and the timer it is raced against fires:
\* the rejection is handled as any other failure of the call
EvalTimeout ==
    /\ evalPc \notin {"idle", "answered"}
    /\ evalPc = evalHang
    /\ TimeBounded(evalOp, evalPc)
    /\ \E n \in AfterFailure(evalOp, evalPc) : evalPc' = n
    /\ evalAbsent' = evalAbsent \cup {evalPc}
    /\ UNCHANGED <<evalOp, evalHang, now, outsideEval>>

(***************************************************************************)
(* The holder-count job under many calls (pages/api/holders.ts): start and *)
(* step requests of any number of clients, served one after the other,     *)
(* against an upstream that returns a continuation cursor for as long as   *)
(* it likes.  A call is the whole handler, its page fetch included.        *)
(***************************************************************************)
NoJob == [live |-> FALSE]

\* ceilings found in the code base: the page loop of getHoldersCountHelius
\* and the polling loop of loadHoldersSol
MAX_PAGES == 25
MAX_STEPS == 60

\* the calls served in one run of the model
MaxStepCalls == 64
MaxLongTicks == 2

\* what the upstream answers to a fetch with cursor c: a page with accounts
\* and a further cursor, a last page, or an error
FetchOutcomes(c) ==
    {[ok |-> TRUE, page |-> Page(arr, TRUE)] : arr \in NonEmptyPages}
    \cup {[ok |-> TRUE, page |-> Page(EmptyPage, FALSE)], [ok |-> FALSE, page |-> Page(EmptyPage, FALSE)]}

IdleFn ==
    /\ fnArgs = <<>>
    /\ fnPc = "input"
    /\ fnResult = <<>>

IdleLong ==
    /\ longJob = NoJob
    /\ longCalls = 0
    /\ longLast = [act |-> "", status |-> "none", fetches |-> 0]

\* one start or step request, from `cacheGetRaw(key)` to the response
LongCall(action) ==
    LET state == IF needsInit(IF longJob.live THEN "stored" ELSE NoRef, action)
                 THEN NewState(now) ELSE longJob
    IN  /\ longCalls < MaxStepCalls
        /\ longCalls' = longCalls + 1
        /\ IF isStale(state, now)
           THEN /\ longJob' = NoJob
                /\ longLast' = [act |-> action, status |-> "expired", fetches |-> 0]
           ELSE \E f \in FetchOutcomes(state.cursor) :
                   LET arr  == f.page.accounts
                       done == ~f.page.hasCursor \/ Len(arr) = 0
                       s1   == [state EXCEPT !.owners = addOwners(state.owners, arr),
                                             !.pages = state.pages + 1,
                                             !.updatedAt = now]
                   IN  IF ~f.ok
                       THEN /\ longJob' = state
                            /\ longLast' = [act |-> action, status |-> "error", fetches |-> 1]
                       ELSE IF done
                       THEN /\ longJob' = NoJob
                            /\ longLast' = [act |-> action, status |-> "done", fetches |-> 1]
                       ELSE /\ longJob' = [s1 EXCEPT !.cursor = state.cursor + 1]
                            /\ longLast' = [act |-> action, status |-> "running", fetches |-> 1]
        /\ UNCHANGED <<now, outsideLong>>

LongTick ==
    /\ now + JOB_TTL_MS <= MaxLongTicks * JOB_TTL_MS
    /\ now' = now + JOB_TTL_MS
    /\ UNCHANGED <<longVars, outsideLong>>

(***************************************************************************)
(* Dev candidate: the fast path (score.ts: detectEarliestSigner,           *)
(* bestDevCandidate inside solTokenSignals) and the deep path              *)
(* (score_deep.ts: detectDevCandidate), applied to the same outcomes of    *)
(* the same RPC calls.                                                     *)
(***************************************************************************)
\* getSignaturesForAddress: it throws, finds nothing, or finds signatures
SigsOutcomes == {"throws", "empty", "some"}
\* the block time of the oldest signature: in the signature record, or
\* asked with getBlockTime, which answers, answers null or throws
BlockTimeOutcomes == {"inline", "fetched", "null", "throws"}
\* getParsedTransaction of the oldest signature
OldestTxOutcomes == {"throws", "null", "signer", "nosigner"}

\* calls that are not reached keep their first outcome
DevFacts ==
    {f \in [acct : AcctOutcomes, sigs : SigsOutcomes,
            blockTime : BlockTimeOutcomes, tx : OldestTxOutcomes] :
        /\ (f.sigs # "some" => f.blockTime = "inline" /\ f.tx = "throws")}

\* score.ts detectEarliestSigner: every await of it is unguarded
detectEarliestSigner(f) ==
    IF f.sigs = "throws" THEN [threw |-> TRUE, signer |-> NoAddr]
    ELSE IF f.sigs = "empty" THEN [threw |-> FALSE, signer |-> NoAddr]
    ELSE IF f.blockTime = "throws" THEN [threw |-> TRUE, signer |-> NoAddr]
    ELSE IF f.tx = "throws" THEN [threw |-> TRUE, signer |-> NoAddr]
    ELSE IF f.tx = "signer" THEN [threw |-> FALSE, signer |-> "signerS"]
    ELSE [threw |-> FALSE, signer |-> NoAddr]

\* the candidate of the fast path: solTokenSignals reads the authorities
\* from an unguarded getParsedAccountInfo, wraps detectEarliestSigner in
\* try/catch and calls bestDevCandidate
fastDevCandidate(f) ==
    IF ~f.acct.ok THEN [dev |-> NoAddr, reason |-> "threw"]
    ELSE LET r == detectEarliestSigner(f)
             signerDev == IF r.threw THEN NoAddr ELSE r.signer
         IN  bestDevCandidate(f.acct.mintAuth, f.acct.freezeAuth, signerDev)

\* score_deep.ts detectDevCandidate: two try blocks, no getBlockTime
detectDevCandidate(f) ==
    IF f.acct.ok /\ f.acct.mintAuth # NoAddr
    THEN [dev |-> f.acct.mintAuth, reason |-> "mintAuthority"]
    ELSE IF f.acct.ok /\ f.acct.freezeAuth # NoAddr
    THEN [dev |-> f.acct.freezeAuth, reason |-> "freezeAuthority"]
    ELSE IF f.sigs = "some" /\ f.tx = "signer"
    THEN [dev |-> "signerS", reason |-> "earliestSigner"]
    ELSE [dev |-> NoAddr, reason |-> "unknown"]

\* both paths run on the same facts
DevSelect ==
    /\ fnPc = "input"
    /\ fnPc' = "done"
    /\ fnResult' = [fast |-> fastDevCandidate(fnArgs), deep |-> detectDevCandidate(fnArgs)]
    /\ UNCHANGED <<fnArgs, now, outsideFn>>

(***************************************************************************)
(* Buyers-burst heuristic of deepAnalyzeSol (score_deep.ts) on the list of *)
(* enhanced transactions, oldest first.  Accounts are numbered; account 0  *)
(* is a missing toUserAccount.                                             *)
(***************************************************************************)
EARLY_WINDOW_SEC == 60
EARLY_WINDOW_SEC_WIDE == 180

MaxTxs == 3

Transfer(mint, to, amount) == [mint |-> mint, to |-> to, amount |-> amount]

\* a transaction's tokenTransfers: the token goes to accounts a..b, once
\* more to account a, and there are a transfer of another mint, a transfer
\* of amount 0 and a transfer without recipient
TransfersTo(a, b) ==
    [i \in 1..(b - a + 1) |-> Transfer("mintA", a + i - 1, Num(1))]
    \o (IF a <= b THEN <<Transfer("mintA", a, Num(2))>> ELSE <<>>)
    \o <<Transfer("other", 13, Num(1)), Transfer("mintA", 14, Num(0)),
         Transfer("mintA", 0, Num(1)), Transfer("mintA", 15, Malformed)>>

RecipientRanges == {<<1, 0>>, <<1, 5>>, <<1, 6>>, <<6, 11>>, <<6, 12>>, <<1, 12>>}
\* seconds since the epoch: the launch second and the window edges after it
TxTimestamps == {1000, 1060, 1061, 1180, 1181}

EnhancedTxs ==
    {[timestamp |-> t, tokenTransfers |-> TransfersTo(r[1], r[2])] :
        t \in TxTimestamps, r \in RecipientRanges}

\* what heliusEnhancedTxByAddressAsc delivers: at most MaxTxs transactions
\* in ascending time
TxLists ==
    {l \in SeqsUpTo(EnhancedTxs, MaxTxs) :
        \A i \in 1..(Len(l) - 1) : l[i].timestamp <= l[i + 1].timestamp}

\* `asNum(x)`: a finite number, else null (0 here: `!amt` rejects both)
asNum(x) == IF x.t = "num" THEN x.n ELSE 0

\* the recipients one transaction pushes for a window
pushedBy(tx, launchTs, window) ==
    LET dt == tx.timestamp - launchTs
        tts == tx.tokenTransfers
        ok(tt) == /\ tt.mint = "mintA"
                  /\ tt.to # 0
                  /\ asNum(tt.amount) # 0 /\ asNum(tt.amount) > 0
    IN  IF launchTs = 0 \/ tx.timestamp = 0 THEN <<>>
        ELSE IF dt < 0 THEN <<>>
        ELSE IF dt <= window THEN SelectSeq(tts, ok)
        ELSE <<>>

\* buyersEarly / buyersEarlyWide after the loop over txs
RECURSIVE buyersWithin(_, _, _)
buyersWithin(txs, launchTs, window) ==
    IF txs = <<>> THEN <<>>
    ELSE pushedBy(Head(txs), launchTs, window) \o buyersWithin(Tail(txs), launchTs, window)

\* `uniq(arr).length`
uniqLength(arr) == Cardinality({arr[i].to : i \in 1..Len(arr)})

Bundled(window, count) ==
    [id |-> "BUNDLED_LAUNCH_OR_MEV", weight |-> Num(5), window |-> window, count |-> count]

\* the two tests are not chained by `else`
burstSignals_BothWindows(txs) ==
    LET launchTs == IF txs # <<>> THEN txs[1].timestamp ELSE 0
        n60  == uniqLength(buyersWithin(txs, launchTs, EARLY_WINDOW_SEC))
        n180 == uniqLength(buyersWithin(txs, launchTs, EARLY_WINDOW_SEC_WIDE))
    IN  (IF n60 >= 6 THEN <<Bundled(60, n60)>> ELSE <<>>)
        \o (IF n180 >= 12 THEN <<Bundled(180, n180)>> ELSE <<>>)

\* `if (uniqBuyersEarly.length >= 6) ... else if (uniqBuyersEarlyWide.length >= 12) ...`
burstSignals(txs) ==
    LET launchTs == IF txs # <<>> THEN txs[1].timestamp ELSE 0
        n60  == uniqLength(buyersWithin(txs, launchTs, EARLY_WINDOW_SEC))
        n180 == uniqLength(buyersWithin(txs, launchTs, EARLY_WINDOW_SEC_WIDE))
    IN  IF n60 >= 6 THEN <<Bundled(60, n60)>>
        ELSE IF n180 >= 12 THEN <<Bundled(180, n180)>>
        ELSE <<>>

BurstDetect ==
    /\ fnPc = "input"
    /\ fnPc' = "done"
    /\ fnResult' = burstSignals(fnArgs)
    /\ UNCHANGED <<fnArgs, now, outsideFn>>

(***************************************************************************)
(* The token detectors with the dev-holdings band (solTokenSignals with    *)
(* getParsedTokenAccountsByOwner) followed by the LIQUIDITY block of the   *)
(* deep analysis, on one token.  Balances are whole tokens of a supply.    *)
(***************************************************************************)
\* getParsedTokenAccountsByOwner of the dev candidate: it throws, or the
\* balances add up to `held`
DevAcctOutcomes ==
    {[ok |-> FALSE, held |-> 0]} \cup {[ok |-> TRUE, held |-> h] : h \in {0, 30, 31, 50, 51, 55}}

\* the burned share of the LP supply, or no Raydium pool
LpFacts ==
    {[disc |-> "null", burnedRaw |-> 0]}
    \cup {[disc |-> "raydium", burnedRaw |-> b] : b \in {94, 95, 99}}

TokenFacts ==
    [mintAuth : {NoAddr, "authM"}, freezeAuth : {NoAddr, "authF"},
     signerDev : {NoAddr, "signerS"},
     supplyUi : {Null, Num(100)}, topSum : {40, 41, 61, 85},
     devAccts : DevAcctOutcomes, lp : LpFacts]

\* one band for every dev balance above 30%
devHoldsSignals_Over30Only(devAddr, supplyUi, devAccts) ==
    IF devAddr # NoAddr /\ supplyUi.t = "num" /\ supplyUi.n > 0 /\ devAccts.ok
       /\ devAccts.held * 100 > 30 * supplyUi.n
    THEN <<Sig("DEV_HOLDS_GT_30", Num(10))>>
    ELSE <<>>

\* `if (devAddr && supplyUiNum && supplyUiNum > 0) { try { .. if (devPct > 50)
\* .. else if (devPct > 30) .. } catch {} }`
devHoldsSignals(devAddr, supplyUi, devAccts) ==
    IF devAddr # NoAddr /\ supplyUi.t = "num" /\ supplyUi.n # 0 /\ supplyUi.n > 0
       /\ devAccts.ok
    THEN IF devAccts.held * 100 > 50 * supplyUi.n THEN <<Sig("DEV_HOLDS_GT_50", Num(15))>>
         ELSE IF devAccts.held * 100 > 30 * supplyUi.n THEN <<Sig("DEV_HOLDS_GT_30", Num(10))>>
         ELSE <<>>
    ELSE <<>>

\* the signals of solTokenSignals when none of its unguarded calls throws
tokenSignals(f) ==
    LET cand == bestDevCandidate(f.mintAuth, f.freezeAuth, f.signerDev)
    IN  authoritySignals(f.mintAuth, f.freezeAuth)
        \o top10Signals(top10PercentOf(f.supplyUi, f.topSum))
        \o <<Sig("LP_STATUS_UNKNOWN", Num(0))>>
        \o devSignals(cand, f.signerDev)
        \o devHoldsSignals(cand.dev, f.supplyUi, f.devAccts)

\* the LP signal of the deep analysis for the token's pool
tokenLpSignals(lp) ==
    lpBlock(lp.disc, [lp1 |-> "lpMint", found |-> FALSE, lp2 |-> "none",
                      burned |-> [kind |-> "ok", burnedRaw |-> lp.burnedRaw, supplyRaw |-> 100]]).signals

\* the handler's aggregate of the detectors' signals
TokenScore ==
    /\ fnPc = "input"
    /\ fnPc' = "done"
    /\ fnResult' = LET signals == mergeSignals(tokenSignals(fnArgs), tokenLpSignals(fnArgs.lp))
                       score   == computeScoreWithCaps(signals)
                   IN  [signals |-> signals,
                        capped |-> [cat \in RiskCategory |-> cappedOf(signals, cat)],
                        score |-> score, level |-> levelFromScore(score)]
    /\ UNCHANGED <<fnArgs, now, outsideFn>>

(***************************************************************************)
(* The page's risk breakdown (pages/index.tsx: categorizeSignalId,         *)
(* CATEGORY_CAP, sumByCategory) next to the server's categorizers.         *)
(***************************************************************************)
\* String.prototype.includes
Includes(s, sub) ==
    \E i \in 1..(Len(s) - Len(sub) + 1) : SubSeq(s, i, i + Len(sub) - 1) = sub

\* the ids the detectors emit and the ids of the rows of WHY_GROUPS
DetectorIds ==
    {"MINT_AUTHORITY_PRESENT", "FREEZE_AUTHORITY_PRESENT", "TOP10_GT_80", "TOP10_GT_60",
     "TOP10_GT_40", "DEV_HOLDS_GT_50", "DEV_HOLDS_GT_30", "LP_STATUS_UNKNOWN", "LP_NOT_BURNED",
     "LP_OK", "TOKEN_AGE_LT_1H", "TOKEN_AGE_LT_6H", "TOKEN_AGE_LT_24H", "DEV_CANDIDATE",
     "DEV_EARLY_SIGNER", "DEV_UNKNOWN", "LIVE_ERROR", "DEMO_MODE", "NONSTANDARD_TRANSFER",
     "BUNDLED_LAUNCH_OR_MEV", "CLUSTER_FUNDING", "DEV_DUMP_EARLY"}
WhyIds ==
    {"MINT_AUTHORITY_PRESENT", "FREEZE_AUTHORITY_PRESENT", "TOP10_DYNAMIC", "DEV_HOLDS_DYNAMIC",
     "DEV_DUMP_EARLY", "BUNDLED_LAUNCH_OR_MEV", "CLUSTER_FUNDING",
     "BLACKLIST_OR_TRANSFER_BLOCK", "HIGH_TAX", "NONSTANDARD_TRANSFER", "LP_NOT_BURNED"}

\* `String(id || "").toUpperCase()`: the ids above hold no lower-case letter
toUpperCase(id) == id

\* the page's categorizer; "null" is its `return null`
pageCategorizeSignalId(id) ==
    LET x == toUpperCase(id)
    IN  IF Includes(x, "MINT_AUTHORITY") \/ Includes(x, "FREEZE_AUTHORITY") THEN "PERMISSIONS"
        ELSE IF StartsWith(x, "TOP10_") \/ StartsWith(x, "DEV_HOLDS_") THEN "DISTRIBUTION"
        ELSE IF StartsWith(x, "LP_") THEN "LIQUIDITY"
        ELSE IF \/ Includes(x, "BLACKLIST")
                \/ Includes(x, "TRANSFER_BLOCK")
                \/ Includes(x, "HIGH_TAX")
                \/ Includes(x, "NONSTANDARD_TRANSFER")
                \/ Includes(x, "HOOK")
        THEN "DEV_CONTRACT"
        ELSE IF \/ Includes(x, "DEV_DUMP") \/ Includes(x, "BUNDLED")
                \/ Includes(x, "MEV") \/ Includes(x, "CLUSTER")
        THEN "TX_PATTERNS"
        ELSE "null"

SignalCategory == {"PERMISSIONS", "DISTRIBUTION", "LIQUIDITY", "DEV_CONTRACT", "TX_PATTERNS"}

CATEGORY_CAP(cat) ==
    CASE cat = "PERMISSIONS"  -> 10
      [] cat = "DISTRIBUTION" -> 30
      [] cat = "LIQUIDITY"    -> 10
      [] cat = "DEV_CONTRACT" -> 30
      [] cat = "TX_PATTERNS"  -> 20

\* `buckets[cat] += Number(s?.weight ?? 0) || 0` for the signals the
\* categorizer places
RECURSIVE pageBucket(_, _)
pageBucket(signals, cat) ==
    IF signals = <<>> THEN 0
    ELSE (IF pageCategorizeSignalId(Head(signals).id) = cat
          THEN NumberOr0(Head(signals).weight) ELSE 0)
         + pageBucket(Tail(signals), cat)

\* `buckets[cat] = Math.max(0, Math.min(CATEGORY_CAP[cat], buckets[cat]))`
sumByCategory(signals) ==
    [cat \in SignalCategory |-> Max(0, Min(CATEGORY_CAP(cat), pageBucket(signals, cat)))]

\* the later revision of the server's categorizer: the prefix rules of
\* categorizeSignalId and the exact ids added to them
categorizeSignalIdExact(id) ==
    IF id \in {"HIGH_TAX", "BLACKLIST_OR_TRANSFER_BLOCK", "NONSTANDARD_TRANSFER"}
    THEN "DEV_CONTRACT"
    ELSE IF id \in {"DEV_DUMP_EARLY", "BUNDLED_LAUNCH_OR_MEV", "CLUSTER_FUNDING"}
    THEN "TX_PATTERNS"
    ELSE categorizeSignalId(id)

MaxBreakdownLen == 2

BreakdownSignals == {Sig(id, w) : id \in DetectorIds \cup WhyIds, w \in {Num(10), Num(25)}}

\* the page and the server place and sum the same signal list
Breakdown ==
    /\ fnPc = "input"
    /\ fnPc' = "done"
    /\ fnResult' = [page |-> sumByCategory(fnArgs),
                    server |-> [cat \in RiskCategory |-> cappedOf(fnArgs, cat)]]
    /\ UNCHANGED <<fnArgs, now, outsideFn>>

(***************************************************************************)
(* Specifications: one per subsystem; the other subsystems stay idle.      *)
(***************************************************************************)
InitAgg ==
    /\ aggSignals \in SeqsUpTo(AggSignalSet, MaxSignals)
    /\ aggPc = "input"
    /\ aggCapped = [cat \in RiskCategory |-> 0]
    /\ aggScore = 0
    /\ now = 0
    /\ IdleMerge /\ IdleCache /\ IdleHolders /\ IdleScore /\ IdleDeep /\ IdlePage /\ IdleEval
    /\ IdleLong /\ IdleFn

NextAgg == Compute

SpecAgg == InitAgg /\ [][NextAgg]_vars

InitMerge ==
    /\ mBase \in SeqsUpTo(MergeSignalSet, MaxMergeLen)
    /\ mDeep \in SeqsUpTo(MergeSignalSet, MaxMergeLen)
    /\ mPc = "input"
    /\ mOut = <<>>
    /\ mOut2 = <<>>
    /\ now = 0
    /\ IdleAgg /\ IdleCache /\ IdleHolders /\ IdleScore /\ IdleDeep /\ IdlePage /\ IdleEval
    /\ IdleLong /\ IdleFn

NextMerge == Merge \/ MergeAgain

SpecMerge == InitMerge /\ [][NextMerge]_vars

InitCache ==
    /\ now = 0
    /\ IdleAgg /\ IdleMerge /\ IdleCache /\ IdleHolders /\ IdleScore /\ IdleDeep /\ IdlePage /\ IdleEval
    /\ IdleLong /\ IdleFn

NextCache == CacheTick \/ DoCacheSet \/ DoCacheGet \/ DoSetCached \/ DoGetCached

SpecCache == InitCache /\ [][NextCache]_vars

InitHolders ==
    /\ upstream \in UNION {UpstreamsOf(p) : p \in 1..MaxPages}
    /\ heap = [o \in ObjIds |-> Free]
    /\ jobRef = NoRef
    /\ finalCache = NoFinal
    /\ req = [r \in Req |-> IdleReq]
    /\ log = <<>>
    /\ now = 0
    /\ IdleAgg /\ IdleMerge /\ IdleCache /\ IdleScore /\ IdleDeep /\ IdlePage /\ IdleEval
    /\ IdleLong /\ IdleFn

NextHolders ==
    \/ HReset
    \/ \E r \in Req : HBegin(r, "start")
    \/ \E r \in Req : HBegin(r, "step")
    \/ \E r \in Req : HFetchOk(r)
    \/ \E r \in Req : HFetchFail(r)
    \/ HTick

SpecHolders == InitHolders /\ [][NextHolders]_vars

\* the server in the middle of a job: two step requests began on a new job
\* of a mint with several pages, the first has returned `running` and the
\* second is still waiting for its page; `log` holds the later responses
InitHoldersBusy ==
    /\ upstream \in UNION {UpstreamsOf(p) : p \in 2..MaxPages}
    /\ heap = [o \in ObjIds |->
                  IF o = "s1"
                  THEN [NewState(0) EXCEPT !.owners = addOwners({}, upstream[1].accounts),
                                           !.cursor = 1, !.pages = 1]
                  ELSE Free]
    /\ jobRef = "s1"
    /\ finalCache = NoFinal
    /\ req = [r \in Req |->
                 IF r = "r2"
                 THEN [pc |-> "fetching", act |-> "step", st |-> "s1", cursor |-> 0, conc |-> TRUE]
                 ELSE IdleReq]
    /\ log = <<>>
    /\ now = 0
    /\ IdleAgg /\ IdleMerge /\ IdleCache /\ IdleScore /\ IdleDeep /\ IdlePage /\ IdleEval
    /\ IdleLong /\ IdleFn

SpecHoldersBusy == InitHoldersBusy /\ [][NextHolders]_vars

InitScore ==
    /\ now = 0
    /\ IdleAgg /\ IdleMerge /\ IdleCache /\ IdleHolders /\ IdleScore /\ IdleDeep /\ IdlePage /\ IdleEval
    /\ IdleLong /\ IdleFn

NextScore == ScoreHit \/ ScoreMiss \/ ScoreTick

SpecScore == InitScore /\ [][NextScore]_vars

InitDeep ==
    /\ now = 0
    /\ IdleAgg /\ IdleMerge /\ IdleCache /\ IdleHolders /\ IdleScore /\ IdleDeep /\ IdlePage /\ IdleEval
    /\ IdleLong /\ IdleFn

NextDeep == DeepReject \/ DeepHit \/ DeepMiss \/ DeepTick

SpecDeep == InitDeep /\ [][NextDeep]_vars

InitPage ==
    /\ now = 0
    /\ IdleAgg /\ IdleMerge /\ IdleCache /\ IdleHolders /\ IdleScore /\ IdleDeep /\ IdlePage /\ IdleEval
    /\ IdleLong /\ IdleFn

NextPage == PageRun \/ PageDeepSettles

SpecPage == InitPage /\ [][NextPage]_vars

InitEval ==
    /\ now = 0
    /\ IdleAgg /\ IdleMerge /\ IdleCache /\ IdleHolders /\ IdleScore /\ IdleDeep /\ IdlePage
    /\ IdleEval /\ IdleLong /\ IdleFn

NextEval == EvalStart \/ EvalCallReturns \/ EvalCallThrows \/ EvalTimeout

\* a call that can respond does respond, and a running timer fires
SpecEvalFair ==
    /\ InitEval /\ [][NextEval]_vars
    /\ WF_vars(EvalCallReturns \/ EvalCallThrows) /\ WF_vars(EvalTimeout)

InitLong ==
    /\ now = 0
    /\ IdleAgg /\ IdleMerge /\ IdleCache /\ IdleHolders /\ IdleScore /\ IdleDeep /\ IdlePage
    /\ IdleEval /\ IdleLong /\ IdleFn

NextLong == LongCall("start") \/ LongCall("step") \/ LongTick

SpecLong == InitLong /\ [][NextLong]_vars

InitDev ==
    /\ fnArgs \in DevFacts
    /\ fnPc = "input"
    /\ fnResult = <<>>
    /\ now = 0
    /\ IdleAgg /\ IdleMerge /\ IdleCache /\ IdleHolders /\ IdleScore /\ IdleDeep /\ IdlePage
    /\ IdleEval /\ IdleLong

NextDev == DevSelect

SpecDev == InitDev /\ [][NextDev]_vars

InitBurst ==
    /\ fnArgs \in TxLists
    /\ fnPc = "input"
    /\ fnResult = <<>>
    /\ now = 0
    /\ IdleAgg /\ IdleMerge /\ IdleCache /\ IdleHolders /\ IdleScore /\ IdleDeep /\ IdlePage
    /\ IdleEval /\ IdleLong

NextBurst == BurstDetect

SpecBurst == InitBurst /\ [][NextBurst]_vars

InitToken ==
    /\ fnArgs \in TokenFacts
    /\ fnPc = "input"
    /\ fnResult = <<>>
    /\ now = 0
    /\ IdleAgg /\ IdleMerge /\ IdleCache /\ IdleHolders /\ IdleScore /\ IdleDeep /\ IdlePage
    /\ IdleEval /\ IdleLong

NextToken == TokenScore

SpecToken == InitToken /\ [][NextToken]_vars

InitBreakdown ==
    /\ fnArgs \in SeqsUpTo(BreakdownSignals, MaxBreakdownLen)
    /\ fnPc = "input"
    /\ fnResult = <<>>
    /\ now = 0
    /\ IdleAgg /\ IdleMerge /\ IdleCache /\ IdleHolders /\ IdleScore /\ IdleDeep /\ IdlePage
    /\ IdleEval /\ IdleLong

NextBreakdown == Breakdown

SpecBreakdown == InitBreakdown /\ [][NextBreakdown]_vars

(***************************************************************************)
(* Properties of the aggregator (SpecAgg)                                  *)
(***************************************************************************)

\* C1: after computeScoreWithCaps has run on a list, the contribution of each
\* category lies between 0 and its cap (PERMISSIONS 10, DISTRIBUTION 30,
\* LIQUIDITY 10, DEV_CONTRACT 30, TX_PATTERNS 20, CONTEXT 0) and the score
\* lies between 0 and 100.
C1_CategoryCapsHold ==
    aggPc = "done" =>
        /\ aggCapped["PERMISSIONS"] \in 0..10
        /\ aggCapped["DISTRIBUTION"] \in 0..30
        /\ aggCapped["LIQUIDITY"] \in 0..10
        /\ aggCapped["DEV_CONTRACT"] \in 0..30
        /\ aggCapped["TX_PATTERNS"] \in 0..20
        /\ aggCapped["CONTEXT"] = 0
        /\ aggScore \in 0..100

\* three DISTRIBUTION signals of weight 15 each: 45 raw, 30 after the cap
C1_OverCapWitness ==
    /\ aggPc = "done"
    /\ Len(aggSignals) = 3
    /\ \A i \in 1..3 : aggSignals[i] = Sig("TOP10_GT_80", Num(15))
    /\ aggCapped["DISTRIBUTION"] = 30
    /\ aggScore = 30

\* C9: the score of a list equals the score of the same list with the weight
\* of every CONTEXT signal set to 0, and an id that matches no rule
\* (DEMO_MODE) is CONTEXT.
C9_ContextNeverScores ==
    aggPc = "done" =>
        LET zeroed == [i \in 1..Len(aggSignals) |->
                          IF categorizeSignalId(aggSignals[i].id) = "CONTEXT"
                          THEN Sig(aggSignals[i].id, Num(0))
                          ELSE aggSignals[i]]
        IN  /\ aggScore = computeScoreWithCaps(zeroed)
            /\ \A i \in 1..Len(aggSignals) :
                   aggSignals[i].id \in {"DEMO_MODE", "DEV_CANDIDATE"} =>
                       /\ categorizeSignalId(aggSignals[i].id) = "CONTEXT"
                       /\ aggScore = computeScoreWithCaps(
                              [j \in 1..Len(aggSignals) |->
                                  IF j = i THEN Sig(aggSignals[j].id, Num(0))
                                  ELSE aggSignals[j]])

\* a weighted DEMO_MODE and a weighted DEV_CANDIDATE next to a scored signal
C9_WeightedContextWitness ==
    /\ aggPc = "done"
    /\ aggSignals = <<Sig("DEMO_MODE", Num(15)), Sig("LP_NOT_BURNED", Num(15)),
                      Sig("DEV_CANDIDATE", Num(15))>>
    /\ aggScore = 10

(***************************************************************************)
(* Properties of the merger (SpecMerge)                                    *)
(***************************************************************************)
IdsOf(list) == {list[i].id : i \in 1..Len(list)}

\* the entry a Map keeps for an id after the list was set into it in order
LastWithId(list, id) ==
    list[CHOOSE i \in 1..Len(list) :
            /\ list[i].id = id
            /\ \A j \in (i + 1)..Len(list) : list[j].id # id]

\* C8: the merged list has one entry per id; its ids are those of base and
\* deep together; the entry of an id that deep has is deep's signal, the
\* entry of any other id is base's signal; merging deep in again changes
\* nothing.
C8_MergeDeepWins ==
    mPc # "input" =>
        /\ \A i, j \in 1..Len(mOut) : mOut[i].id = mOut[j].id => i = j
        /\ IdsOf(mOut) = IdsOf(mBase) \cup IdsOf(mDeep)
        /\ \A i \in 1..Len(mOut) :
               IF mOut[i].id \in IdsOf(mDeep)
               THEN mOut[i] = LastWithId(mDeep, mOut[i].id)
               ELSE mOut[i] = LastWithId(mBase, mOut[i].id)
        /\ (mPc = "again" => mOut2 = mOut)

\* an id in both lists with different weights, one only in base, one only in deep
C8_OverlapWitness ==
    /\ mPc = "again"
    /\ mBase = <<Sig("LP_STATUS_UNKNOWN", Num(0)), Sig("DEV_CANDIDATE", Num(0))>>
    /\ mDeep = <<Sig("LP_STATUS_UNKNOWN", Num(10)), Sig("LP_NOT_BURNED", Num(10))>>
    /\ mOut = <<Sig("LP_STATUS_UNKNOWN", Num(10)), Sig("DEV_CANDIDATE", Num(0)),
                Sig("LP_NOT_BURNED", Num(10))>>
    /\ mOut2 = mOut

(***************************************************************************)
(* Properties of the TTL caches (SpecCache).  cacheOp holds the last       *)
(* operation: the entry it found (`before`), its time and what it          *)
(* returned; the stores are as that operation left them.                   *)
(***************************************************************************)

\* C6 as amended: a get of the result cache returns the stored value while at
\* most ttl has elapsed since the set and keeps the entry, and returns absent
\* and removes the entry once more than ttl has elapsed; a get of the
\* pool-discovery cache returns the stored value while less than ttl has
\* elapsed and returns absent and removes the entry once ttl has elapsed.
C6_TtlBoundaries ==
    /\ (cacheOp.op = "cacheGet" /\ cacheOp.before.present) =>
           IF cacheOp.at - cacheOp.before.ts <= cacheOp.ttl
           THEN /\ cacheOp.ret = cacheOp.before.value
                /\ pgCache[cacheOp.key] = cacheOp.before
           ELSE /\ cacheOp.ret = "null"
                /\ ~pgCache[cacheOp.key].present
    /\ (cacheOp.op = "getCached" /\ cacheOp.before.present) =>
           IF cacheOp.at - cacheOp.before.at < cacheOp.before.ttl
           THEN /\ cacheOp.ret = cacheOp.before.val
                /\ dexCache[cacheOp.key] = cacheOp.before
           ELSE /\ cacheOp.ret = "undefined"
                /\ ~dexCache[cacheOp.key].present

\* a result-cache get exactly ttl after the set: the value is still served
C6_ServedAtTtlWitness ==
    /\ cacheOp.op = "cacheGet"
    /\ cacheOp.before.present
    /\ cacheOp.at - cacheOp.before.ts = ScoreTtlMs
    /\ cacheOp.ret = cacheOp.before.value
    /\ pgCache[cacheOp.key].present

\* C6 as stated: in both caches a get right after the set returns the value,
\* and a get once ttl has elapsed since the set returns absent and removes
\* the entry.
C6_AbsentOnceTtlElapsed ==
    /\ (cacheOp.op = "cacheGet" /\ cacheOp.before.present) =>
           /\ (cacheOp.at = cacheOp.before.ts => cacheOp.ret = cacheOp.before.value)
           /\ (cacheOp.at - cacheOp.before.ts >= cacheOp.ttl =>
                   cacheOp.ret = "null" /\ ~pgCache[cacheOp.key].present)
    /\ (cacheOp.op = "getCached" /\ cacheOp.before.present) =>
           /\ (cacheOp.at = cacheOp.before.at => cacheOp.ret = cacheOp.before.val)
           /\ (cacheOp.at - cacheOp.before.at >= cacheOp.before.ttl =>
                   cacheOp.ret = "undefined" /\ ~dexCache[cacheOp.key].present)

(***************************************************************************)
(* Properties of the holder job (SpecHolders).  log holds the responses in *)
(* the order they were sent.                                               *)
(***************************************************************************)

\* the owners with a positive balance in at least one account of the mint
HoldersOf(up) ==
    {o \in Owners :
        \E p \in 1..Len(up) : \E i \in 1..Len(up[p].accounts) :
            /\ up[p].accounts[i].owner = o
            /\ up[p].accounts[i].amount.t = "num"
            /\ up[p].accounts[i].amount.n > 0}

\* the first n responses answer step calls that overlapped with no other
\* request, fetched their page and were not refused as expired
SequentialSteps(n) ==
    \A j \in 1..n :
        /\ log[j].act = "step"
        /\ ~log[j].conc
        /\ log[j].status \in {"running", "done"}

\* C2: with no job state at the start and a last page without cursor, the
\* i-th of P sequential step calls reports running for i < P, and the P-th
\* reports done with the number of distinct positive-balance owners.
C2_StepsRunThenDone ==
    LET P == Len(upstream)
    IN  \A i \in 1..Len(log) :
            (i <= P /\ ~upstream[P].hasCursor /\ SequentialSteps(i)) =>
                /\ (i < P => log[i].status = "running")
                /\ (i = P => /\ log[i].status = "done"
                             /\ log[i].holders = Cardinality(HoldersOf(upstream))
                             /\ log[i].pages = P)

\* two pages, o1 with a positive balance, o2 only with a zero balance
C2_TwoPagesWitness ==
    /\ Len(upstream) = 2
    /\ ~upstream[2].hasCursor
    /\ HoldersOf(upstream) = {"o1"}
    /\ \E p \in 1..2 : \E i \in 1..Len(upstream[p].accounts) :
           upstream[p].accounts[i] = Acct("o2", Num(0))
    /\ Len(log) = 2
    /\ SequentialSteps(2)
    /\ log[1].status = "running"
    /\ log[2].status = "done" /\ log[2].holders = 1 /\ log[2].pages = 2

\* C7: a step that arrives while the stored job's startedAt is more than ten
\* minutes old answers expired, fetches no page and removes the stored job.
C7_StaleStepExpires ==
    [][\A r \in Req :
          (/\ jobRef # NoRef
           /\ now - heap[jobRef].startedAt > 10 * 60 * 1000
           /\ HBegin(r, "step"))
          => /\ jobRef' = NoRef
             /\ req'[r].pc = "idle"
             /\ Len(log') = Len(log) + 1
             /\ log'[Len(log')].status = "expired"]_vars

\* a job that fetched a page, then a step twenty minutes after its start
C7_ExpiredWitness ==
    /\ Len(log) = 2
    /\ log[1].status = "running"
    /\ log[2].act = "step" /\ log[2].status = "expired"
    /\ jobRef = NoRef
    /\ \A r \in Req : req[r].pc = "idle"

(***************************************************************************)
(* Properties of the score handler (SpecScore).  scoreResp.body carries    *)
(* the request (url) and the upstream outcomes (up) it was built from.     *)
(***************************************************************************)
Answered == scoreResp.status = "answered"

\* the response of an evaluation of a Solana mint whose address is valid
SolEvaluation == Answered /\ scoreResp.body.url.chain = "sol" /\ scoreResp.body.url.validKey

\* C3: when every upstream call of an evaluation fails, the response has
\* score 0, confidence LOW and exactly one signal, of weight 0.
C3_AllFailFallback ==
    (SolEvaluation /\ Cardinality(FailedCalls(scoreResp.body.up)) = 5) =>
        /\ scoreResp.body.status = 200
        /\ scoreResp.body.score = 0
        /\ scoreResp.body.confidence = "LOW"
        /\ Len(scoreResp.body.signals) = 1
        /\ scoreResp.body.signals[1].weight = Num(0)

\* the ids the detectors whose own calls succeeded emit from the facts they got
SurvivingIds(up) ==
    (IF up.acct.ok /\ up.acct.mintAuth # NoAddr THEN {"MINT_AUTHORITY_PRESENT"} ELSE {})
    \cup (IF up.acct.ok /\ up.acct.freezeAuth # NoAddr THEN {"FREEZE_AUTHORITY_PRESENT"} ELSE {})
    \cup (IF up.supply.ok /\ up.largest.ok /\ up.supply.ui = Num(20) /\ up.largest.topSum = 17
          THEN {"TOP10_GT_80"} ELSE {})
    \cup (IF up.age.ok /\ up.age.known /\ up.age.seconds = 1800
          THEN {"TOKEN_AGE_LT_1H"} ELSE {})

\* C5: when the upstream call of exactly one detector fails, the signals of
\* the detectors whose calls succeeded are in the response and the score is
\* the aggregate of the signals in the response.
C5_OneFailureKeepsOthers ==
    (SolEvaluation /\ Cardinality(FailedCalls(scoreResp.body.up)) = 1) =>
        /\ SurvivingIds(scoreResp.body.up) \subseteq IdsOf(scoreResp.body.signals)
        /\ scoreResp.body.score = computeScoreWithCaps(scoreResp.body.signals)

Top10Ids == {"TOP10_GT_80", "TOP10_GT_60", "TOP10_GT_40"}

\* C10: in the response of an evaluation that ran its detectors, at most one
\* TOP10 band is present: GT_80 above 80%, GT_60 above 60% up to 80%, GT_40
\* above 40% up to 60%, none at 40% or below or when the supply is unknown
\* or zero.
C10_Top10BandsExclusive ==
    (SolEvaluation /\ FailedCalls(scoreResp.body.up) \cap {"acct", "supply", "largest"} = {}) =>
        LET up     == scoreResp.body.up
            sigs   == scoreResp.body.signals
            known  == up.supply.ui.t = "num" /\ up.supply.ui.n > 0
            top    == up.largest.topSum * 100
            supply == up.supply.ui.n
            bands  == {i \in 1..Len(sigs) : StartsWith(sigs[i].id, "TOP10_")}
            band   == IF ~known THEN "none"
                      ELSE IF top > 80 * supply THEN "TOP10_GT_80"
                      ELSE IF top > 60 * supply THEN "TOP10_GT_60"
                      ELSE IF top > 40 * supply THEN "TOP10_GT_40"
                      ELSE "none"
        IN  /\ Cardinality(bands) <= 1
            /\ \A i \in bands : sigs[i].id = band /\ sigs[i].id \in Top10Ids
            /\ (band # "none" => bands # {})

\* 17 of a supply of 20 in the top ten accounts (85%): only TOP10_GT_80
C10_EightyFiveWitness ==
    /\ SolEvaluation
    /\ FailedCalls(scoreResp.body.up) = {}
    /\ scoreResp.body.up.supply.ui = Num(20)
    /\ scoreResp.body.up.largest.topSum = 17
    /\ IdsOf(scoreResp.body.signals) \cap Top10Ids = {"TOP10_GT_80"}

(***************************************************************************)
(* Properties of the deep handler (SpecDeep)                               *)
(***************************************************************************)
LpIds == {"LP_OK", "LP_NOT_BURNED", "LP_STATUS_UNKNOWN"}

\* C4: the response of every completed deep analysis holds exactly one
\* LP_ signal, and it is LP_OK, LP_NOT_BURNED or LP_STATUS_UNKNOWN.
C4_OneLpSignal ==
    (deepResp.status = "answered" /\ deepResp.body.status = 200) =>
        LET sigs == deepResp.body.signals
            lps  == {i \in 1..Len(sigs) : StartsWith(sigs[i].id, "LP_")}
        IN  /\ Cardinality(lps) = 1
            /\ \A i \in lps : sigs[i].id \in LpIds

(***************************************************************************)
(* Properties of the page (SpecPage)                                       *)
(***************************************************************************)

\* C11: the score shown for a token is the aggregator applied to the merged
\* signal list (the fast signals with the deep signals overwriting by id),
\* in particular once the deep signals have arrived.
C11_ShownScoreIsAggregateOfMerged ==
    pageData # NoResp => shownScore = computeScoreWithCaps(mergedSignals)

(***************************************************************************)
(* Input validation of the two handlers (SpecScore)                        *)
(***************************************************************************)

\* C12: a request whose subject is not a valid address is rejected with a
\* client input error (status 400) and no upstream call is made, by the
\* score handler and by the deep handler alike.
C12_InvalidAddressRejected ==
    /\ (scoreResp # NoResp /\ scoreResp.body.url.chain = "sol"
                           /\ ~scoreResp.body.url.validKey)
          => scoreResp.body.status = 400 /\ scoreResp.body.up = UpNone
    /\ (deepResp # NoResp /\ deepResp.body.url.chain = "sol"
                          /\ ~deepResp.body.url.validKey)
          => deepResp.body.status = 400

(***************************************************************************)
(* Progress of one evaluation request (SpecEvalFair)                       *)
(***************************************************************************)

\* C13: an evaluation request is eventually answered even if one upstream
\* call never responds: every awaited call is bounded by a timeout and a
\* timed-out call counts as absent data.
C13_RequestEventuallyAnswered ==
    [](evalPc \notin {"idle", "answered"} => <>(evalPc = "answered"))

(***************************************************************************)
(* Confidence of a score response (SpecScore)                              *)
(***************************************************************************)

\* C14: in every score response, confidence is HIGH only if the token age
\* is known and at least 24 hours, the top-holder concentration is known,
\* a dev candidate was identified and the premium data-source key is
\* configured; and the score is the aggregate of the response's signals,
\* whatever the confidence.
C14_HighConfidenceOnlyWhenComplete ==
    scoreResp # NoResp =>
        LET b == scoreResp.body
            m == solTokenSignals(b.url.validKey, b.up).meta
        IN  /\ b.confidence = "HIGH" =>
                  /\ m.age_seconds.t = "num" /\ m.age_seconds.n >= 86400
                  /\ m.top10.known
                  /\ m.dev_candidate # NoAddr
                  /\ b.up.heliusKey
            /\ b.score = computeScoreWithCaps(b.signals)

(***************************************************************************)
(* Start, reset and completion of the holder-count job (SpecHolders)       *)
(***************************************************************************)

\* C15: a start request always begins from a fresh job state (no owners, no
\* cursor, page count 0, startedAt = now), also when a state for the mint
\* is stored: the fresh state is a new object that is stored for the mint
\* and that no other request holds, so the owners of the prior job are not
\* in it; a start that overlaps with no other request reports the owners
\* of the first page only.
C15_StartBeginsFresh ==
    /\ [][\A r \in Req : HBegin(r, "start") =>
            /\ jobRef' # NoRef /\ jobRef' # jobRef
            /\ heap'[jobRef'] = NewState(now)
            /\ req'[r].pc = "fetching" /\ req'[r].st = jobRef' /\ req'[r].cursor = 0
            /\ \A q \in Req \ {r} : req'[q].pc = "fetching" => req'[q].st # jobRef']_vars
    /\ [](\A i \in 1..Len(log) :
            (log[i].act = "start" /\ ~log[i].conc /\ log[i].status \in {"running", "done"})
                => /\ log[i].holders = Cardinality(positiveOwners(upstream[1].accounts))
                   /\ log[i].pages = 1)

\* a start request is in flight on an empty state after a step of the prior
\* job has reported owners
C15_StartOverPriorJobWitness ==
    /\ Len(log) = 1 /\ log[1].act = "step" /\ log[1].status = "running" /\ log[1].holders > 0
    /\ \E r \in Req : /\ req[r].pc = "fetching" /\ req[r].act = "start"
                      /\ heap[req[r].st].owners = {} /\ heap[req[r].st].pages = 0

\* C16: a reset request deletes the mint's job state unconditionally: right
\* after a reset no job state is stored for the mint, whatever was stored
\* before (nothing, a running job, a job other requests are working on),
\* and the reset is answered with status reset.
C16_ResetDeletesJob ==
    [][HReset => /\ jobRef' = NoRef
                 /\ log' = Append(log, log'[Len(log')])
                 /\ log'[Len(log')].status = "reset"]_vars

\* a reset was served while a running job was stored for the mint
C16_ResetOfRunningJobWitness ==
    /\ Len(log) = 2 /\ log[1].status = "running" /\ log[2].status = "reset"
    /\ Fetching(req) = {}
    /\ jobRef = NoRef

\* C17: calling the step redundantly is safe: under every interleaving of
\* requests for the mint, each suspended at its page fetch, every response
\* that reports done reports the number of distinct positive-balance owners
\* across the mint's pages.
C17_DoneCountsAllOwners ==
    \A i \in 1..Len(log) :
        log[i].status = "done" => log[i].holders = Cardinality(HoldersOf(upstream))

\* two step requests were suspended at the fetch of the mint's only page at
\* the same time; both worked on one state object and both reported done
\* with the one holder of the page
C17_OverlappingStepsWitness ==
    /\ Len(upstream) = 1
    /\ Cardinality(HoldersOf(upstream)) = 1
    /\ Len(log) = 2
    /\ \A i \in 1..2 : /\ log[i].act = "step" /\ log[i].conc
                       /\ log[i].status = "done" /\ log[i].holders = 1
    /\ log[1].pages = 1 /\ log[2].pages = 2

\* C18: a step that receives a page without continuation cursor, or an
\* empty page, reports done, stores the final owner count under
\* holders_final:<mint> and deletes the job state; a step that finds no job
\* state begins a fresh job (no owners, no cursor, page count 0), so the
\* step that follows a done reports page count 1 again.
C18_DoneStoresFinalAndClears ==
    /\ [][/\ \A r \in Req :
               (HFetchOk(r) /\ (\/ ~upstream[req[r].cursor + 1].hasCursor
                                \/ Len(upstream[req[r].cursor + 1].accounts) = 0))
                   => /\ Len(log') = Len(log) + 1
                      /\ log'[Len(log')].status = "done"
                      /\ finalCache'.present
                      /\ finalCache'.holders = log'[Len(log')].holders
                      /\ jobRef' = NoRef
          /\ \A r \in Req :
               (HBegin(r, "step") /\ jobRef = NoRef)
                   => /\ jobRef' # NoRef
                      /\ heap'[jobRef'] = NewState(now)
                      /\ req'[r].st = jobRef' /\ req'[r].cursor = 0]_vars
    /\ [](\A i \in 1..(Len(log) - 1) :
            (/\ log[i].status = "done" /\ ~log[i].conc
             /\ log[i + 1].act = "step" /\ ~log[i + 1].conc
             /\ log[i + 1].status \in {"running", "done"})
                => /\ log[i + 1].pages = 1
                   /\ log[i + 1].holders = Cardinality(positiveOwners(upstream[1].accounts)))

\* a step reported done on a page with a cursor but no accounts, the final
\* count is stored, and the step after it ran a fresh job from page one
C18_StepAfterDoneWitness ==
    /\ Len(upstream) = 1 /\ upstream[1].hasCursor /\ upstream[1].accounts = EmptyPage
    /\ Len(log) = 2
    /\ \A i \in 1..2 : /\ log[i].act = "step" /\ ~log[i].conc
                       /\ log[i].status = "done" /\ log[i].pages = 1
    /\ finalCache.present /\ finalCache.holders = 0
    /\ jobRef = NoRef

(***************************************************************************)
(* Cost of the holder-count job (SpecLong)                                 *)
(***************************************************************************)

\* the most generous page ceiling the code base names for holder counting
PageCeiling == Max(MAX_PAGES, MAX_STEPS + 1)

\* C19: a call fetches one upstream page (none when it is refused as
\* expired), and the pages one job attempts never exceed a fixed ceiling,
\* however many steps are called and however long the upstream keeps
\* returning a cursor.
C19_OnePagePerStepAndCeiling ==
    /\ longLast.fetches = (IF longLast.status \in {"none", "expired"} THEN 0 ELSE 1)
    /\ longJob.live => longJob.pages <= PageCeiling

(***************************************************************************)
(* Weights in the aggregator (SpecAgg)                                     *)
(***************************************************************************)

\* the list without its i-th signal
WithoutAt(list, i) == SubSeq(list, 1, i - 1) \o SubSeq(list, i + 1, Len(list))

PriorityCandidate(f) ==
    IF f.acct.ok /\ f.acct.mintAuth # NoAddr THEN f.acct.mintAuth
    ELSE IF f.acct.ok /\ f.acct.freezeAuth # NoAddr THEN f.acct.freezeAuth
    ELSE IF f.sigs = "some" /\ f.tx = "signer" THEN "signerS"
    ELSE NoAddr

\* C21: the dev candidate is chosen by strict priority (mint authority,
\* freeze authority, earliest signer, none), and the fast path and the deep
\* path choose the same candidate from the same upstream facts.
C21_SamePriorityCandidate ==
    fnPc = "done" =>
        /\ fnResult.fast.dev = PriorityCandidate(fnArgs)
        /\ fnResult.deep.dev = PriorityCandidate(fnArgs)
        /\ fnResult.fast.dev = fnResult.deep.dev

(***************************************************************************)
(* Buyers burst (SpecBurst)                                                *)
(***************************************************************************)

\* the accounts that received a positive amount of the token in a
\* transaction at most `window` seconds after the first transaction
RecipientsWithin(txs, window) ==
    {a \in 1..15 :
        \E i \in 1..Len(txs) : \E j \in 1..Len(txs[i].tokenTransfers) :
            LET tt == txs[i].tokenTransfers[j]
            IN  /\ txs[i].timestamp - txs[1].timestamp \in 0..window
                /\ tt.mint = "mintA" /\ tt.to = a
                /\ tt.amount.t = "num" /\ tt.amount.n > 0}

\* C22: with at least 6 unique recipients within 60 s of the first
\* transaction, or at least 12 within 180 s, exactly one
\* BUNDLED_LAUNCH_OR_MEV signal is emitted, reporting the 60 s count when
\* the 60 s threshold is met and the 180 s count otherwise; with neither
\* threshold met no signal is emitted.
C22_OneBundledSignal ==
    fnPc = "done" =>
        LET n60  == Cardinality(RecipientsWithin(fnArgs, 60))
            n180 == Cardinality(RecipientsWithin(fnArgs, 180))
        IN  /\ (n60 >= 6 => fnResult = <<Bundled(60, n60)>>)
            /\ (n60 < 6 /\ n180 >= 12 => fnResult = <<Bundled(180, n180)>>)
            /\ (n60 < 6 /\ n180 < 12 => fnResult = <<>>)

\* five recipients in the first minute and twelve in the first three: the
\* one signal reports the 180 s count
C22_WideWindowWitness ==
    /\ fnPc = "done"
    /\ Cardinality(RecipientsWithin(fnArgs, 60)) = 5
    /\ Cardinality(RecipientsWithin(fnArgs, 180)) = 12
    /\ \E i \in 1..Len(fnArgs) : fnArgs[i].timestamp - fnArgs[1].timestamp = 180
    /\ fnResult = <<Bundled(180, 12)>>

(***************************************************************************)
(* Detectors and aggregate on one token (SpecToken)                        *)
(***************************************************************************)

\* the weight of the top-10 band and of the dev-holdings band for the facts
Top10BandWeight(f) ==
    IF f.supplyUi.t # "num" THEN 0
    ELSE IF f.topSum * 100 > 80 * f.supplyUi.n THEN 15
    ELSE IF f.topSum * 100 > 60 * f.supplyUi.n THEN 10
    ELSE IF f.topSum * 100 > 40 * f.supplyUi.n THEN 5
    ELSE 0

DevBandWeight(f) ==
    IF f.supplyUi.t # "num" \/ ~f.devAccts.ok THEN 0
    ELSE IF f.mintAuth = NoAddr /\ f.freezeAuth = NoAddr /\ f.signerDev = NoAddr THEN 0
    ELSE IF f.devAccts.held * 100 > 50 * f.supplyUi.n THEN 15
    ELSE IF f.devAccts.held * 100 > 30 * f.supplyUi.n THEN 10
    ELSE 0

\* mint authority present, freeze authority absent, top-10 share 85%, the
\* dev candidate holds 55% of the supply, LP 99% burned
C23_Scenario ==
    /\ fnArgs.mintAuth # NoAddr /\ fnArgs.freezeAuth = NoAddr
    /\ fnArgs.supplyUi = Num(100) /\ fnArgs.topSum = 85
    /\ fnArgs.devAccts = [ok |-> TRUE, held |-> 55]
    /\ fnArgs.lp = [disc |-> "raydium", burnedRaw |-> 99]

\* C23: for a token with mint authority present, freeze authority absent,
\* top-10 share 85%, dev candidate holding 55% and LP 99% burned, the
\* detectors' signals give PERMISSIONS = 5, DISTRIBUTION = min(15 + 15, 30),
\* LIQUIDITY = 0; for every token the DISTRIBUTION subtotal is the top-10
\* band plus the dev-holdings band capped at 30, the score is the sum of the
\* capped subtotals, and the level is HIGH exactly when the score is >= 70.
C23_ScenarioSubtotals ==
    fnPc = "done" =>
        /\ C23_Scenario =>
              /\ fnResult.capped["PERMISSIONS"] = 5
              /\ fnResult.capped["DISTRIBUTION"] = 30
              /\ fnResult.capped["LIQUIDITY"] = 0
              /\ fnResult.score = 35
        /\ fnResult.capped["DISTRIBUTION"] = Min(30, Top10BandWeight(fnArgs) + DevBandWeight(fnArgs))
        /\ fnResult.score = fnResult.capped["PERMISSIONS"] + fnResult.capped["DISTRIBUTION"]
                            + fnResult.capped["LIQUIDITY"] + fnResult.capped["DEV_CONTRACT"]
                            + fnResult.capped["TX_PATTERNS"] + fnResult.capped["CONTEXT"]
        /\ (fnResult.level = "HIGH") <=> (fnResult.score >= 70)

\* the scenario evaluated: TOP10_GT_80 and DEV_HOLDS_GT_50 both emitted, the
\* burned pool reported as LP_OK
C23_ScenarioWitness ==
    /\ fnPc = "done"
    /\ C23_Scenario
    /\ \E i \in 1..Len(fnResult.signals) : fnResult.signals[i].id = "TOP10_GT_80"
    /\ \E i \in 1..Len(fnResult.signals) : fnResult.signals[i].id = "DEV_HOLDS_GT_50"
    /\ \E i \in 1..Len(fnResult.signals) : fnResult.signals[i].id = "LP_OK"
    /\ fnResult.level = "MEDIUM"

(***************************************************************************)
(* Overlapping requests of the holder job (SpecHolders)                    *)
(***************************************************************************)

\* every start so far has returned and nothing has deleted the job state:
\* the stored state is the one the latest start created
StartReturnedJobKept ==
    /\ jobRef # NoRef
    /\ \E i \in 1..Len(log) : log[i].act = "start"
    /\ \A q \in Req : req[q].pc = "fetching" => req[q].act # "start"
    /\ \A i \in 1..Len(log') : log'[i].status \in {"running", "error"}

\* C24: after a start request has returned, the stored job state is the one
\* that start created, also when a step request for the previous state was
\* suspended at its page fetch when start arrived and completes afterwards:
\* the stored reference changes only to a state object created by that very
\* step of the system, never back to an older object.
C24_StartStateSurvivesOldStep ==
    [][StartReturnedJobKept => (jobRef' = jobRef \/ ~heap[jobRef'].live)]_vars

\* a request passes its initialisation in this step
RequestArrives == \E r \in Req : req[r].pc = "idle" /\ req'[r].pc = "fetching"

\* C25: once a step has reported done and deleted the job state, no job
\* state is stored again until a new start or step request arrives; a
\* concurrent step on the same job whose page fetch was still in flight
\* does not store the finished job's state again when it completes.
C25_FinishedJobStaysDeleted ==
    [][(/\ jobRef = NoRef
        /\ \E i \in 1..Len(log) : log[i].status = "done"
        /\ jobRef' # NoRef) => RequestArrives]_vars

\* C27: when the page fetch of a step fails, the step reports status error
\* and the stored job state (owner set, cursor, page count) is exactly as it
\* was before the fetch, a fresh empty state if none existed; for a step
\* that overlapped with no other request the stored state is the one the
\* step read and its cursor is the cursor of the failed fetch, so the next
\* step fetches the same page and no page is skipped or counted twice.
C27_FailedFetchLeavesJob ==
    /\ [][\A r \in Req : (HFetchFail(r) /\ req[r].act = "step") =>
            /\ Len(log') = Len(log) + 1
            /\ log'[Len(log')].status = "error"
            /\ jobRef' = jobRef
            /\ jobRef # NoRef =>
                   /\ heap'[jobRef].owners = heap[jobRef].owners
                   /\ heap'[jobRef].cursor = heap[jobRef].cursor
                   /\ heap'[jobRef].pages = heap[jobRef].pages
            /\ ~req[r].conc =>
                   /\ jobRef = req[r].st
                   /\ heap'[jobRef].cursor = req[r].cursor]_vars
    /\ [](\A i \in 1..Len(log) :
            (/\ i > 1 /\ log[i].act = "step" /\ ~log[i].conc
             /\ log[i].status \in {"running", "done"}
             /\ log[i - 1].act = "step" /\ ~log[i - 1].conc /\ log[i - 1].status = "error"
             /\ SequentialSteps(i - 2)
             /\ \A j \in 1..(i - 2) : log[j].status = "running")
                => log[i].pages = i - 1)

\* a step failed on the first page of a new job: the empty state it created
\* is stored; the next step fetched that page and counts it as page 1
C27_RetriedPageWitness ==
    /\ Len(log) = 2
    /\ log[1].act = "step" /\ log[1].status = "error" /\ ~log[1].conc
    /\ log[2].act = "step" /\ log[2].status = "running" /\ ~log[2].conc
    /\ log[2].pages = 1
    /\ log[2].holders = Cardinality(positiveOwners(upstream[1].accounts))
    /\ jobRef # NoRef /\ heap[jobRef].cursor = 1 /\ heap[jobRef].pages = 1

(***************************************************************************)
(* Failed evaluations and the result cache (SpecScore)                     *)
(***************************************************************************)

\* the response of an evaluation that failed: the fallback response
FailedEvaluation(body) == HasId(body.signals, "LIVE_ERROR")

\* C28: only results of successful live evaluations are written to the
\* result cache: no cache entry holds the response of a failed evaluation,
\* and no request is answered from the cache with such a response.
C28_FailuresNotCached ==
    /\ \A k \in ScoreKeys : scoreCache[k].present => ~FailedEvaluation(scoreCache[k].value)
    /\ (Answered /\ scoreResp.hit) => ~FailedEvaluation(scoreResp.body)

(***************************************************************************)
(* Liquidity signals in the page's merged list (SpecPage)                  *)
(***************************************************************************)

\* C29: the merged list of fast and deep signals holds at most one
\* liquidity (LP_*) signal: once the deep path has reported LP_OK or
\* LP_NOT_BURNED, the fast path's LP_STATUS_UNKNOWN is not in the merged list.
C29_OneLiquiditySignalMerged ==
    /\ Cardinality({i \in 1..Len(mergedSignals) : StartsWith(mergedSignals[i].id, "LP_")}) <= 1
    /\ (HasId(pageDeepSignals, "LP_OK") \/ HasId(pageDeepSignals, "LP_NOT_BURNED"))
           => ~HasId(mergedSignals, "LP_STATUS_UNKNOWN")

(***************************************************************************)
(* Page breakdown against the server's subtotals (SpecBreakdown)           *)
(***************************************************************************)

\* the server category the page's answer stands for
AsRiskCategory(c) == IF c = "null" THEN "CONTEXT" ELSE c

\* C30: for every signal id a detector emits or the WHY model lists, the
\* server's categorizer and the page's categorizer assign the same category
\* (the page's null standing for CONTEXT), and for the same signal list the
\* page's per-category breakdown equals the server's clamped subtotals.
C30_PageAndServerAgree ==
    fnPc = "done" =>
        /\ \A i \in 1..Len(fnArgs) :
              AsRiskCategory(pageCategorizeSignalId(fnArgs[i].id)) = categorizeSignalId(fnArgs[i].id)
        /\ \A cat \in SignalCategory : fnResult.page[cat] = fnResult.server[cat]

\* the deep request of run i, which is not the latest run, settles
StaleDeepSettles(i) ==
    /\ i < Len(pageDeepReqs)
    /\ pageDeepReqs[i].pc = "pending"
    /\ pageDeepReqs'[i].pc = "settled"

\* C26: the deep signals merged into the displayed result come from the
\* deep request of the run that is displayed: the answer to the deep
\* request of an earlier run that arrives after a later run has started is
\* not merged into the later result's signal list, and it does not clear
\* the deep-loading flag.
C26_StaleDeepAnswerIgnored ==
    [][\A i \in 1..Len(pageDeepReqs) :
          StaleDeepSettles(i) =>
              /\ pageDeepSignals' = pageDeepSignals
              /\ pageDeepLoading' = pageDeepLoading]_vars

====
